---- MODULE Spec2Model ----
(***************************************************************************)
(* The tabbed terminal notepad of src/terminal_clock.py (the richer of the *)
(* two notepad variants; src/terminal_notepad.py holds the same TextBuffer *)
(* and tab code without search, goto, themes and file types).              *)
(*                                                                         *)
(* Text is modelled as sequences of code points (chr(key) of the key codes *)
(* the event loop reads), indices are the source's zero-based indices, and *)
(* Python's None filename is the empty sequence (the source only ever      *)
(* tests a filename for truthiness, so None and "" behave alike).          *)
(***************************************************************************)
EXTENDS Integers, Sequences, FiniteSets, TLC

VARIABLES
    tabs,            \* TerminalNotepad.tabs: sequence of TextBuffer records
    current_tab,     \* TerminalNotepad.current_tab (zero-based)
    search_mode,     \* TerminalNotepad.search_mode
    goto_mode,       \* TerminalNotepad.goto_mode
    query,           \* handle_search's local query
    line_str,        \* handle_goto's local line_str
    search_manager,  \* SearchManager fields
    current_theme,   \* Theme.current_theme
    syntax_enabled,  \* TerminalNotepad.syntax_enabled
    fs,              \* the files on disk: path -> [exists, content]
    message,         \* what handle_save left on the status line, "" when nothing
    running,         \* FALSE once the run loop has left through Ctrl+Q
    height,          \* stdscr.getmaxyx()[0]; the viewport is height - 3 rows
    last,            \* the operation that produced this state and what it returned
    lim,             \* the size limits of this run: [lines, chars, tabs]
    player           \* PixelatedGifPlayer fields, its two threads and its stdin

vars == <<tabs, current_tab, search_mode, goto_mode, query, line_str,
          search_manager, current_theme, syntax_enabled, fs, message,
          running, height, last, lim, player>>

----------------------------------------------------------------------------
(* Bounds of the model. *)

\* lines per buffer and characters in all buffers in the TextBuffer runs
MaxLines == 3
MaxChars == 2
\* the same in the runs that also save and load
FileLines == 2
FileChars == 2
\* the same in the session runs with one document
SessLines == 2
SessChars == 1
\* tabs, and characters in all buffers, in the session runs with several tabs
TabsMax == 3
TabsChars == 1
\* characters typed into the search prompt and into the goto prompt
MaxQuery == 1
\* the SearchManager runs: characters in the searched file, length of a query
SearchChars == 3
MaxTyped == 2
\* the whole event loop: lines per buffer, characters in all buffers, tabs
RunLines == 2
RunChars == 1
RunTabs == 2
HlChars == 5
SearchQuery == 2
MaxDigits == 1
\* move_cursor is called with dx, dy in -MaxDelta..MaxDelta, goto_line with 0..MaxGoto
MaxDelta == 1
MaxGoto == 4

----------------------------------------------------------------------------
(* Code points. *)

LF == 10
CR == 13
DOT == 46
CH_a == 97
CH_A == 65
CH_p == 112
CH_y == 121
CH_E == 69
CH_i == 105
CH_IDOT == 304
CH_DOTABOVE == 775

\* the printable characters the runs type into a buffer
Chars == {CH_a, CH_A}

\* what str.splitlines treats as a line boundary
LineBreaks == {10, 11, 12, 13, 28, 29, 30, 133, 8232, 8233}

None == <<>>

Truthy(s) == s # <<>>

Max(a, b) == IF a >= b THEN a ELSE b
Min(a, b) == IF a <= b THEN a ELSE b

\* s[lo:hi] for lo, hi >= 0
PySlice(s, lo, hi) == SubSeq(s, Min(lo, Len(s)) + 1, Min(hi, Len(s)))

\* del s[i] / s.insert(i, x), i zero-based
DelAt(s, i) == SubSeq(s, 1, i) \o SubSeq(s, i + 2, Len(s))
InsAt(s, i, x) == SubSeq(s, 1, i) \o <<x>> \o SubSeq(s, i + 1, Len(s))

RECURSIVE SumLen(_)
SumLen(ls) == IF ls = <<>> THEN 0 ELSE Len(Head(ls)) + SumLen(Tail(ls))

----------------------------------------------------------------------------
(* Files. *)

\* the one path the runs name: "a.py"
Path_py == <<CH_a, DOT, CH_p, CH_y>>
Paths == {Path_py}

NoFile == [exists |-> FALSE, content |-> <<>>]
File(c) == [exists |-> TRUE, content |-> c]

\* os.path.exists
Exists(files, name) == name \in DOMAIN files /\ files[name].exists

\* '\n'.join(lines)
RECURSIVE Join(_)
Join(ls) ==
    IF Len(ls) = 0 THEN <<>>
    ELSE IF Len(ls) = 1 THEN ls[1]
    ELSE ls[1] \o <<LF>> \o Join(Tail(ls))

\* str.splitlines: cut at every line boundary (\r\n is one boundary), and
\* no empty last line after a final boundary
RECURSIVE SplitFrom(_, _, _)
SplitFrom(c, i, cur) ==
    IF i > Len(c) THEN (IF cur = <<>> THEN <<>> ELSE <<cur>>)
    ELSE IF c[i] \in LineBreaks
         THEN <<cur>> \o SplitFrom(c,
                                   IF c[i] = CR /\ i < Len(c) /\ c[i + 1] = LF
                                   THEN i + 2 ELSE i + 1,
                                   <<>>)
         ELSE SplitFrom(c, i + 1, Append(cur, c[i]))

SplitLines(c) == SplitFrom(c, 1, <<>>)

\* the text of the one-line buffer a failed read leaves ("Error loading file: ...")
ErrorLine == <<CH_E>>

----------------------------------------------------------------------------
(* SyntaxHighlighter.get_file_type *)

\* str.lower on one code point: A-Z map to a-z, and U+0130 (capital I with
\* dot above) maps to the two code points i, U+0307
LowerCh(c) ==
    IF c >= 65 /\ c <= 90 THEN <<c + 32>>
    ELSE IF c = CH_IDOT THEN <<CH_i, CH_DOTABOVE>>
    ELSE <<c>>

\* str.lower
RECURSIVE Lower(_)
Lower(s) == IF s = <<>> THEN <<>> ELSE LowerCh(Head(s)) \o Lower(Tail(s))

\* os.path.splitext(name)[1] for a name without directory separators: from
\* the last dot on, unless only dots come before it
LastDot(s) == IF \E i \in 1..Len(s) : s[i] = DOT
              THEN CHOOSE i \in 1..Len(s) :
                       s[i] = DOT /\ \A j \in (i + 1)..Len(s) : s[j] # DOT
              ELSE 0
SplitExt(s) ==
    LET d == LastDot(s) IN
    IF d > 0 /\ \E j \in 1..(d - 1) : s[j] # DOT
    THEN SubSeq(s, d, Len(s)) ELSE <<>>

\* ext_map.get(ext, 'text')
ExtMap(e) ==
    CASE e = <<46, 112, 121>> -> "python"                           \* .py
      [] e = <<46, 106, 115>> -> "javascript"                       \* .js
      [] e \in {<<46, 99>>, <<46, 104>>, <<46, 99, 112, 112>>,
                <<46, 104, 112, 112>>} -> "c"                       \* .c .h .cpp .hpp
      [] e \in {<<46, 104, 116, 109, 108>>,
                <<46, 104, 116, 109>>} -> "html"                    \* .html .htm
      [] e = <<46, 99, 115, 115>> -> "css"                          \* .css
      [] e \in {<<46, 109, 100>>,
                <<46, 109, 97, 114, 107, 100, 111, 119, 110>>}
              -> "markdown"                                         \* .md .markdown
      [] OTHER -> "text"

get_file_type(filename) ==
    IF ~Truthy(filename) THEN "text" ELSE ExtMap(Lower(SplitExt(filename)))

----------------------------------------------------------------------------
(* SyntaxHighlighter.  Positions in a line are zero-based, a span is        *)
(* <<start, end, color>> with the end exclusive, a slice is <<text, color>>. *)
(* Each kind of pattern has an operator that gives the end of its match at  *)
(* a position, or -1 when it does not match there.                          *)

CH_f == 102
HASH == 35
DQUOTE == 34
SQUOTE == 39
STAR == 42
SLASH == 47
LT == 60
GT == 62
COLON == 58
SEMICOLON == 59
LBRACE == 123
BACKTICK == 96
LBRACKET == 91
RBRACKET == 93
LPAREN == 40
RPAREN == 41

PythonKeywords ==
    {
     <<100, 101, 102>>,                          \* def
     <<99, 108, 97, 115, 115>>,                  \* class
     <<105, 102>>,                               \* if
     <<101, 108, 105, 102>>,                     \* elif
     <<101, 108, 115, 101>>,                     \* else
     <<102, 111, 114>>,                          \* for
     <<119, 104, 105, 108, 101>>,                \* while
     <<116, 114, 121>>,                          \* try
     <<101, 120, 99, 101, 112, 116>>,            \* except
     <<102, 105, 110, 97, 108, 108, 121>>,       \* finally
     <<119, 105, 116, 104>>,                     \* with
     <<105, 109, 112, 111, 114, 116>>,           \* import
     <<102, 114, 111, 109>>,                     \* from
     <<114, 101, 116, 117, 114, 110>>,           \* return
     <<121, 105, 101, 108, 100>>,                \* yield
     <<108, 97, 109, 98, 100, 97>>,              \* lambda
     <<112, 97, 115, 115>>,                      \* pass
     <<98, 114, 101, 97, 107>>,                  \* break
     <<99, 111, 110, 116, 105, 110, 117, 101>>,  \* continue
     <<97, 110, 100>>,                           \* and
     <<111, 114>>,                               \* or
     <<110, 111, 116>>,                          \* not
     <<105, 110>>,                               \* in
     <<105, 115>>,                               \* is
     <<84, 114, 117, 101>>,                      \* True
     <<70, 97, 108, 115, 101>>,                  \* False
     <<78, 111, 110, 101>>                       \* None
    }

JavascriptKeywords ==
    {
     <<102, 117, 110, 99, 116, 105, 111, 110>>,       \* function
     <<118, 97, 114>>,                                \* var
     <<108, 101, 116>>,                               \* let
     <<99, 111, 110, 115, 116>>,                      \* const
     <<105, 102>>,                                    \* if
     <<101, 108, 115, 101>>,                          \* else
     <<102, 111, 114>>,                               \* for
     <<119, 104, 105, 108, 101>>,                     \* while
     <<100, 111>>,                                    \* do
     <<115, 119, 105, 116, 99, 104>>,                 \* switch
     <<99, 97, 115, 101>>,                            \* case
     <<100, 101, 102, 97, 117, 108, 116>>,            \* default
     <<116, 114, 121>>,                               \* try
     <<99, 97, 116, 99, 104>>,                        \* catch
     <<102, 105, 110, 97, 108, 108, 121>>,            \* finally
     <<114, 101, 116, 117, 114, 110>>,                \* return
     <<98, 114, 101, 97, 107>>,                       \* break
     <<99, 111, 110, 116, 105, 110, 117, 101>>,       \* continue
     <<116, 114, 117, 101>>,                          \* true
     <<102, 97, 108, 115, 101>>,                      \* false
     <<110, 117, 108, 108>>,                          \* null
     <<117, 110, 100, 101, 102, 105, 110, 101, 100>>  \* undefined
    }

CKeywords ==
    {
     <<105, 110, 116>>,                          \* int
     <<99, 104, 97, 114>>,                       \* char
     <<102, 108, 111, 97, 116>>,                 \* float
     <<100, 111, 117, 98, 108, 101>>,            \* double
     <<118, 111, 105, 100>>,                     \* void
     <<105, 102>>,                               \* if
     <<101, 108, 115, 101>>,                     \* else
     <<102, 111, 114>>,                          \* for
     <<119, 104, 105, 108, 101>>,                \* while
     <<100, 111>>,                               \* do
     <<115, 119, 105, 116, 99, 104>>,            \* switch
     <<99, 97, 115, 101>>,                       \* case
     <<100, 101, 102, 97, 117, 108, 116>>,       \* default
     <<114, 101, 116, 117, 114, 110>>,           \* return
     <<98, 114, 101, 97, 107>>,                  \* break
     <<99, 111, 110, 116, 105, 110, 117, 101>>,  \* continue
     <<115, 116, 114, 117, 99, 116>>,            \* struct
     <<116, 121, 112, 101, 100, 101, 102>>,      \* typedef
     <<101, 110, 117, 109>>,                     \* enum
     <<115, 116, 97, 116, 105, 99>>,             \* static
     <<101, 120, 116, 101, 114, 110>>,           \* extern
     <<99, 111, 110, 115, 116>>,                 \* const
     <<118, 111, 108, 97, 116, 105, 108, 101>>   \* volatile
    }

Quotes == {<<DQUOTE>>, <<SQUOTE>>}

\* \w and \s on the code points of the runs; \d is 48..57
WordChars == (48..57) \cup (65..90) \cup (97..122) \cup {95, CH_IDOT}
SpaceChars == {9, 10, 11, 12, 13, 32}

\* the character at position p, 0 outside the line
At(line, p) == IF 0 <= p /\ p < Len(line) THEN line[p + 1] ELSE 0

\* the string t stands at position p
Has(line, p, t) == p >= 0 /\ PySlice(line, p, p + Len(t)) = t

\* \b at position p
Boundary(line, p) ==
    (At(line, p - 1) \in WordChars) # (At(line, p) \in WordChars)

\* no line feed at the positions lo .. hi-1, which '.' has to match
NoLF(line, lo, hi) == \A k \in lo..(hi - 1) : At(line, k) # LF

\* the least element of a non-empty set of integers
Least(S) == CHOOSE x \in S : \A y \in S : x <= y

\* $ under re.MULTILINE, from position p: the end of the line or the place
\* before the next line feed
Eol(line, p) ==
    Least({q \in p..Len(line) : q = Len(line) \/ At(line, q) = LF})

\* the end of the longest run of characters of the set S from position p
RunEnd(line, p, S) == Least({q \in p..Len(line) : At(line, q) \notin S})

\* \b(w1|w2|...)\b
WordEnd(ws, line, p) ==
    LET ends == {p + Len(k) : k \in {k \in ws :
                     /\ Has(line, p, k)
                     /\ Boundary(line, p)
                     /\ Boundary(line, p + Len(k))}}
    IN IF ends = {} THEN -1 ELSE Least(ends)

\* #.*$ and //.*$: the opening and the rest of the line
ToEolEnd(open, line, p) ==
    IF Has(line, p, open) THEN Eol(line, p + Len(open)) ELSE -1

\* open.*?close, as in ["\'].*?["\'], /\*.*?\*/ and \*\*.*?\*\*: one of the
\* openings, then up to the nearest of the closings
DelimitedEnd(opens, closes, line, p) ==
    LET ends == {q + Len(cl) : <<o, cl, q>> \in
                     {t \in opens \X closes \X (p..Len(line)) :
                         /\ Has(line, p, t[1])
                         /\ t[3] >= p + Len(t[1])
                         /\ Has(line, t[3], t[2])
                         /\ NoLF(line, p + Len(t[1]), t[3])}}
    IN IF ends = {} THEN -1 ELSE Least(ends)

\* \b\d+\b
NumberEnd(line, p) ==
    LET e == RunEnd(line, p, 48..57)
    IN IF /\ At(line, p) \in 48..57
          /\ Boundary(line, p)
          /\ Boundary(line, e)
       THEN e ELSE -1

\* #\w+
DirectiveEnd(line, p) ==
    IF At(line, p) = HASH /\ At(line, p + 1) \in WordChars
    THEN RunEnd(line, p + 1, WordChars) ELSE -1

\* </?[^>]+>
TagEnd(line, p) ==
    LET closes == {r \in (p + 2)..(Len(line) - 1) : At(line, r) = GT}
    IN IF At(line, p) = LT /\ At(line, p + 1) # GT /\ closes # {}
       THEN Least(closes) + 1 ELSE -1

\* [.#]?\w+\s*{
SelectorEnd(line, p) ==
    LET w == IF At(line, p) \in {DOT, HASH} /\ At(line, p + 1) \in WordChars
             THEN p + 1 ELSE p
        e == RunEnd(line, RunEnd(line, w, WordChars), SpaceChars)
    IN IF At(line, w) \in WordChars /\ At(line, e) = LBRACE
       THEN e + 1 ELSE -1

\* :\s*[^;]+;
PropertyEnd(line, p) ==
    LET closes == {r \in (p + 1)..(Len(line) - 1) : At(line, r) = SEMICOLON}
    IN IF At(line, p) = COLON /\ closes # {} /\ Least(closes) >= p + 2
       THEN Least(closes) + 1 ELSE -1

\* ^#{1,6}\s.*$
HeaderEnd(line, p) ==
    LET k == Least({q \in p..Len(line) : At(line, q) # HASH}) - p
    IN IF /\ (p = 0 \/ At(line, p - 1) = LF)
          /\ 1 <= k /\ k <= 6
          /\ At(line, p + k) \in SpaceChars
       THEN Eol(line, p + k + 1) ELSE -1

\* \[.*?\]\(.*?\): up to the nearest "](" and from there to the nearest ")"
LinkEnd(line, p) ==
    LET closes(q) == {r \in (q + 2)..(Len(line) - 1) :
                          /\ At(line, r) = RPAREN
                          /\ NoLF(line, q + 2, r)}
        mids == {q \in (p + 1)..(Len(line) - 2) :
                     /\ Has(line, q, <<RBRACKET, LPAREN>>)
                     /\ NoLF(line, p + 1, q)
                     /\ closes(q) # {}}
    IN IF At(line, p) = LBRACKET /\ mids # {}
       THEN Least(closes(Least(mids))) + 1 ELSE -1

\* the rules: a kind of pattern, its strings, and the color of its matches
Rule(kind, a, b, color) == [kind |-> kind, a |-> a, b |-> b, color |-> color]

\* SyntaxHighlighter.patterns: the rules of each file type, in order
patterns ==
    LET Words(ws, color) == Rule("words", ws, {}, color)
        ToEol(open, color) == Rule("to_eol", open, {}, color)
        Delimited(opens, closes, color) ==
            Rule("delimited", opens, closes, color)
        Other(kind, color) == Rule(kind, {}, {}, color)
        BlockComment == Delimited({<<SLASH, STAR>>}, {<<STAR, SLASH>>}, 2)
        self == <<115, 101, 108, 102>>
        cls == <<99, 108, 115>>
        this == <<116, 104, 105, 115>>
        window == <<119, 105, 110, 100, 111, 119>>
        document == <<100, 111, 99, 117, 109, 101, 110, 116>>
    IN
    [python |->
        <<Words(PythonKeywords, 1), ToEol(<<HASH>>, 2),
          Delimited(Quotes, Quotes, 3), Other("number", 4),
          Words({self, cls}, 5)>>,
     javascript |->
        <<Words(JavascriptKeywords, 1), ToEol(<<SLASH, SLASH>>, 2),
          BlockComment, Delimited(Quotes, Quotes, 3), Other("number", 4),
          Words({this, window, document}, 5)>>,
     c |->
        <<Words(CKeywords, 1), ToEol(<<SLASH, SLASH>>, 2), BlockComment,
          Delimited({<<DQUOTE>>}, {<<DQUOTE>>}, 3), Other("number", 4),
          Other("directive", 5)>>,
     html |->
        <<Other("tag", 1),
          Delimited({<<60, 33, 45, 45>>}, {<<45, 45, 62>>}, 2),
          Delimited(Quotes, Quotes, 3)>>,
     css |->
        <<Other("selector", 1), BlockComment, Other("property", 3),
          Delimited(Quotes, Quotes, 3)>>,
     markdown |->
        <<Other("header", 1),
          Delimited({<<STAR, STAR>>}, {<<STAR, STAR>>}, 3),
          Delimited({<<STAR>>}, {<<STAR>>}, 4),
          Delimited({<<BACKTICK>>}, {<<BACKTICK>>}, 5),
          Other("link", 1)>>]

\* re.match of the rule's pattern at position p: the end, -1 for no match
MatchEnd(r, line, p) ==
    CASE r.kind = "words" -> WordEnd(r.a, line, p)
      [] r.kind = "to_eol" -> ToEolEnd(r.a, line, p)
      [] r.kind = "delimited" -> DelimitedEnd(r.a, r.b, line, p)
      [] r.kind = "number" -> NumberEnd(line, p)
      [] r.kind = "directive" -> DirectiveEnd(line, p)
      [] r.kind = "tag" -> TagEnd(line, p)
      [] r.kind = "selector" -> SelectorEnd(line, p)
      [] r.kind = "property" -> PropertyEnd(line, p)
      [] r.kind = "header" -> HeaderEnd(line, p)
      [] r.kind = "link" -> LinkEnd(line, p)

\* re.finditer(pattern, line) from position pos on: the matches from left to
\* right, each search starting where the match before ended
RECURSIVE finditer(_, _, _)
finditer(r, line, pos) ==
    IF pos >= Len(line) THEN <<>>
    ELSE LET e == MatchEnd(r, line, pos)
         IN IF e >= 0 THEN <<<<pos, e, r.color>>>> \o finditer(r, line, e)
            ELSE finditer(r, line, pos + 1)

\* the matches of all rules, rule after rule
RECURSIVE CollectMatches(_, _)
CollectMatches(rules, line) ==
    IF rules = <<>> THEN <<>>
    ELSE finditer(Head(rules), line, 0) \o CollectMatches(Tail(rules), line)

\* a sort by start that puts the later discovered of two equal starts first
RECURSIVE SortByStart_unstable(_)
SortByStart_unstable(ms) ==
    IF ms = <<>> THEN <<>>
    ELSE LET rest == SortByStart_unstable(SubSeq(ms, 1, Len(ms) - 1))
             m == ms[Len(ms)]
             k == Cardinality({i \in 1..Len(rest) : rest[i][1] < m[1]})
         IN SubSeq(rest, 1, k) \o <<m>> \o SubSeq(rest, k + 1, Len(rest))

\* matches.sort(key=lambda x: x[0]): stable, by start
RECURSIVE SortByStart(_)
SortByStart(ms) ==
    IF ms = <<>> THEN <<>>
    ELSE LET rest == SortByStart(SubSeq(ms, 1, Len(ms) - 1))
             m == ms[Len(ms)]
             k == Cardinality({i \in 1..Len(rest) : rest[i][1] <= m[1]})
         IN SubSeq(rest, 1, k) \o <<m>> \o SubSeq(rest, k + 1, Len(rest))

\* slices that leave out the text between the spans
RECURSIVE Build_no_gaps(_, _, _)
Build_no_gaps(line, filtered, pos) ==
    IF filtered = <<>> THEN <<>>
    ELSE LET m == Head(filtered)
         IN <<<<PySlice(line, m[1], m[2]), m[3]>>>>
            \o Build_no_gaps(line, Tail(filtered), m[2])

\* the filter: a span is kept unless it starts inside a span kept before
RECURSIVE Filter(_, _)
Filter(ms, filtered) ==
    IF ms = <<>> THEN filtered
    ELSE LET m == Head(ms)
             inside == \E i \in 1..Len(filtered) :
                           filtered[i][1] <= m[1] /\ m[1] < filtered[i][2]
         IN Filter(Tail(ms), IF inside THEN filtered ELSE Append(filtered, m))

\* the slices of the kept spans and of the text between them, from pos on
RECURSIVE Build(_, _, _)
Build(line, filtered, pos) ==
    IF filtered = <<>>
    THEN IF pos < Len(line) THEN <<<<PySlice(line, pos, Len(line)), 0>>>>
         ELSE <<>>
    ELSE LET m == Head(filtered)
         IN (IF m[1] > pos THEN <<<<PySlice(line, pos, m[1]), 0>>>> ELSE <<>>)
            \o <<<<PySlice(line, m[1], m[2]), m[3]>>>>
            \o Build(line, Tail(filtered), m[2])

\* SyntaxHighlighter.highlight_line
highlight_line(line, file_type) ==
    IF file_type \notin DOMAIN patterns THEN <<<<line, 0>>>>
    ELSE LET matches == SortByStart(CollectMatches(patterns[file_type], line))
             result == Build(line, Filter(matches, <<>>), 0)
         IN IF result # <<>> THEN result ELSE <<<<line, 0>>>>

----------------------------------------------------------------------------
(* TextBuffer.  A buffer is a record of the object's fields. *)

CurLine(b) == b.lines[b.cursor_y + 1]

\* load_file without its two guards against an empty result
load_file_unguarded(b, files, readable) ==
    IF readable /\ Truthy(b.filename) /\ Exists(files, b.filename)
    THEN [b EXCEPT !.lines = SplitLines(files[b.filename].content),
                   !.modified = FALSE]
    ELSE [b EXCEPT !.lines = <<ErrorLine>>]

\* TextBuffer.load_file over the files on disk; readable = FALSE is an
\* open/read/decode that raises, as does a file that is not there
load_file(b, files, readable) ==
    IF readable /\ Truthy(b.filename) /\ Exists(files, b.filename)
    THEN LET content == files[b.filename].content
             ls == IF content # <<>> THEN SplitLines(content) ELSE <<<<>>>>
         IN [b EXCEPT !.lines = IF ls = <<>> THEN <<<<>>>> ELSE ls,
                      !.modified = FALSE]
    ELSE [b EXCEPT !.lines = <<ErrorLine>>]

\* TextBuffer.__init__
NewBuffer(filename, files, readable) ==
    LET b0 == [filename |-> filename, lines |-> <<<<>>>>, cursor_x |-> 0,
               cursor_y |-> 0, scroll_y |-> 0, modified |-> FALSE,
               file_type |-> "text"]
        b1 == IF Truthy(filename) /\ Exists(files, filename)
              THEN load_file(b0, files, readable) ELSE b0
    IN IF Truthy(filename)
       THEN [b1 EXCEPT !.file_type = get_file_type(filename)] ELSE b1

\* TextBuffer.save_file up to the write: the filename is rebound first
save_rebind(b, filename) ==
    IF Truthy(filename)
    THEN [b EXCEPT !.filename = filename, !.file_type = get_file_type(filename)]
    ELSE b

\* save_file with modified cleared before the write instead of after it
save_file_clears_first(b, filename, io) ==
    LET b1 == save_rebind(b, filename) IN
    IF ~Truthy(b1.filename)
    THEN [buf |-> b1, ret |-> "False", raised |-> FALSE, touched |-> FALSE,
          content |-> <<>>]
    ELSE [buf |-> [b1 EXCEPT !.modified = FALSE],
          ret |-> IF io = "ok" THEN "True" ELSE "False",
          raised |-> FALSE,
          touched |-> (io # "open_fails"),
          content |-> IF io = "ok" THEN Join(b1.lines) ELSE <<>>]

\* save_file without the try/except around the write
save_file_uncaught(b, filename, io) ==
    LET b1 == save_rebind(b, filename) IN
    IF ~Truthy(b1.filename)
    THEN [buf |-> b1, ret |-> "False", raised |-> FALSE, touched |-> FALSE,
          content |-> <<>>]
    ELSE IF io = "ok"
    THEN [buf |-> [b1 EXCEPT !.modified = FALSE], ret |-> "True",
          raised |-> FALSE, touched |-> TRUE, content |-> Join(b1.lines)]
    ELSE [buf |-> b1, ret |-> "None", raised |-> TRUE,
          touched |-> (io = "write_fails"), content |-> <<>>]

\* TextBuffer.save_file: the buffer after the call, what it returned, whether
\* an exception left it, and what became of the file.  io is how the write
\* went: "ok", "open_fails" (open raises, the file is untouched) or
\* "write_fails" (open has truncated the file, then write raises).
save_file(b, filename, io) ==
    LET b1 == save_rebind(b, filename) IN
    IF ~Truthy(b1.filename)
    THEN [buf |-> b1, ret |-> "False", raised |-> FALSE, touched |-> FALSE,
          content |-> <<>>]
    ELSE IF io = "ok"
    THEN [buf |-> [b1 EXCEPT !.modified = FALSE], ret |-> "True",
          raised |-> FALSE, touched |-> TRUE, content |-> Join(b1.lines)]
    ELSE [buf |-> b1, ret |-> "False", raised |-> FALSE,
          touched |-> (io = "write_fails"), content |-> <<>>]

\* the disk after a save_file that gave r
Written(files, r) ==
    IF r.touched THEN [files EXCEPT ![r.buf.filename] = File(r.content)]
    ELSE files

\* insert_char that leaves the cursor before the new character
insert_char_keeps_cursor(b, char) ==
    LET line == CurLine(b) IN
    [b EXCEPT !.lines[b.cursor_y + 1] =
                  PySlice(line, 0, b.cursor_x) \o <<char>>
                  \o PySlice(line, b.cursor_x, Len(line)),
              !.modified = TRUE]

insert_char(b, char) ==
    LET line == CurLine(b) IN
    [b EXCEPT !.lines[b.cursor_y + 1] =
                  PySlice(line, 0, b.cursor_x) \o <<char>>
                  \o PySlice(line, b.cursor_x, Len(line)),
              !.cursor_x = b.cursor_x + 1,
              !.modified = TRUE]

\* delete_char with cursor_x read after the join instead of before it
delete_char_x_after_join(b) ==
    IF b.cursor_x > 0
    THEN LET line == CurLine(b) IN
         [b EXCEPT !.lines[b.cursor_y + 1] =
                       PySlice(line, 0, b.cursor_x - 1)
                       \o PySlice(line, b.cursor_x, Len(line)),
                   !.cursor_x = b.cursor_x - 1,
                   !.modified = TRUE]
    ELSE IF b.cursor_y > 0
    THEN LET joined == [b.lines EXCEPT ![b.cursor_y] =
                            b.lines[b.cursor_y] \o b.lines[b.cursor_y + 1]]
         IN [b EXCEPT !.cursor_x = Len(joined[b.cursor_y]),
                      !.lines = DelAt(joined, b.cursor_y),
                      !.cursor_y = b.cursor_y - 1,
                      !.modified = TRUE]
    ELSE b

\* delete_char with the join guarded by cursor_y >= 0: on row 0 the index
\* cursor_y - 1 is Python's -1, the last line
delete_char_joins_row0(b) ==
    IF b.cursor_x > 0
    THEN LET line == CurLine(b) IN
         [b EXCEPT !.lines[b.cursor_y + 1] =
                       PySlice(line, 0, b.cursor_x - 1)
                       \o PySlice(line, b.cursor_x, Len(line)),
                   !.cursor_x = b.cursor_x - 1,
                   !.modified = TRUE]
    ELSE LET prev == IF b.cursor_y = 0 THEN Len(b.lines) ELSE b.cursor_y
             joined == [b.lines EXCEPT ![prev] =
                            b.lines[prev] \o b.lines[b.cursor_y + 1]]
         IN [b EXCEPT !.cursor_x = Len(b.lines[prev]),
                      !.lines = DelAt(joined, b.cursor_y),
                      !.cursor_y = b.cursor_y - 1,
                      !.modified = TRUE]

delete_char(b) ==
    IF b.cursor_x > 0
    THEN LET line == CurLine(b) IN
         [b EXCEPT !.lines[b.cursor_y + 1] =
                       PySlice(line, 0, b.cursor_x - 1)
                       \o PySlice(line, b.cursor_x, Len(line)),
                   !.cursor_x = b.cursor_x - 1,
                   !.modified = TRUE]
    ELSE IF b.cursor_y > 0
    THEN LET joined == [b.lines EXCEPT ![b.cursor_y] =
                            b.lines[b.cursor_y] \o b.lines[b.cursor_y + 1]]
         IN [b EXCEPT !.cursor_x = Len(b.lines[b.cursor_y]),
                      !.lines = DelAt(joined, b.cursor_y),
                      !.cursor_y = b.cursor_y - 1,
                      !.modified = TRUE]
    ELSE b

\* delete_forward whose join appends the next line and leaves it in place
delete_forward_keeps_next(b) ==
    LET line == CurLine(b) IN
    IF b.cursor_x < Len(line)
    THEN [b EXCEPT !.lines[b.cursor_y + 1] =
                       PySlice(line, 0, b.cursor_x)
                       \o PySlice(line, b.cursor_x + 1, Len(line)),
                   !.modified = TRUE]
    ELSE IF b.cursor_y < Len(b.lines) - 1
    THEN [b EXCEPT !.lines[b.cursor_y + 1] =
                       b.lines[b.cursor_y + 1] \o b.lines[b.cursor_y + 2],
                   !.modified = TRUE]
    ELSE b

\* delete_forward with modified set after the branches instead of in them
delete_forward_marks(b) ==
    LET line == CurLine(b) IN
    IF b.cursor_x < Len(line)
    THEN [b EXCEPT !.lines[b.cursor_y + 1] =
                       PySlice(line, 0, b.cursor_x)
                       \o PySlice(line, b.cursor_x + 1, Len(line)),
                   !.modified = TRUE]
    ELSE IF b.cursor_y < Len(b.lines) - 1
    THEN LET joined == [b.lines EXCEPT ![b.cursor_y + 1] =
                            b.lines[b.cursor_y + 1] \o b.lines[b.cursor_y + 2]]
         IN [b EXCEPT !.lines = DelAt(joined, b.cursor_y + 1),
                      !.modified = TRUE]
    ELSE [b EXCEPT !.modified = TRUE]

delete_forward(b) ==
    LET line == CurLine(b) IN
    IF b.cursor_x < Len(line)
    THEN [b EXCEPT !.lines[b.cursor_y + 1] =
                       PySlice(line, 0, b.cursor_x)
                       \o PySlice(line, b.cursor_x + 1, Len(line)),
                   !.modified = TRUE]
    ELSE IF b.cursor_y < Len(b.lines) - 1
    THEN LET joined == [b.lines EXCEPT ![b.cursor_y + 1] =
                            b.lines[b.cursor_y + 1] \o b.lines[b.cursor_y + 2]]
         IN [b EXCEPT !.lines = DelAt(joined, b.cursor_y + 1),
                      !.modified = TRUE]
    ELSE b

\* insert_newline with the rest of the line inserted above the cursor row
insert_newline_above(b) ==
    LET line == CurLine(b)
        cut == [b.lines EXCEPT ![b.cursor_y + 1] = PySlice(line, 0, b.cursor_x)]
    IN [b EXCEPT !.lines = InsAt(cut, b.cursor_y,
                                 PySlice(line, b.cursor_x, Len(line))),
                 !.cursor_y = b.cursor_y + 1,
                 !.cursor_x = 0,
                 !.modified = TRUE]

insert_newline(b) ==
    LET line == CurLine(b)
        cut == [b.lines EXCEPT ![b.cursor_y + 1] = PySlice(line, 0, b.cursor_x)]
    IN [b EXCEPT !.lines = InsAt(cut, b.cursor_y + 1,
                                 PySlice(line, b.cursor_x, Len(line))),
                 !.cursor_y = b.cursor_y + 1,
                 !.cursor_x = 0,
                 !.modified = TRUE]

\* the scroll adjustment with the lower edge tested by > instead of >=
adjust_scroll_late(cursor_y, scroll_y, max_y) ==
    IF cursor_y < scroll_y THEN cursor_y
    ELSE IF cursor_y > scroll_y + max_y THEN cursor_y - max_y + 1
    ELSE scroll_y

\* the scroll adjustment at the end of move_cursor
adjust_scroll(cursor_y, scroll_y, max_y) ==
    IF cursor_y < scroll_y THEN cursor_y
    ELSE IF cursor_y >= scroll_y + max_y THEN cursor_y - max_y + 1
    ELSE scroll_y

\* move_cursor with the column clamped to the line the cursor leaves
move_cursor_old_line(b, dx, dy, max_y) ==
    LET new_y == Max(0, Min(Len(b.lines) - 1, b.cursor_y + dy))
        new_x == Max(0, Min(Len(CurLine(b)), b.cursor_x + dx))
    IN [b EXCEPT !.cursor_y = new_y,
                 !.cursor_x = new_x,
                 !.scroll_y = adjust_scroll(new_y, b.scroll_y, max_y)]

\* move_cursor with the column clamped from above only
move_cursor_no_floor(b, dx, dy, max_y) ==
    LET new_y == Max(0, Min(Len(b.lines) - 1, b.cursor_y + dy))
        new_x == Min(Len(b.lines[new_y + 1]), b.cursor_x + dx)
    IN [b EXCEPT !.cursor_y = new_y,
                 !.cursor_x = new_x,
                 !.scroll_y = IF new_y < b.scroll_y THEN new_y
                              ELSE IF new_y >= b.scroll_y + max_y
                              THEN new_y - max_y + 1
                              ELSE b.scroll_y]

move_cursor(b, dx, dy, max_y) ==
    LET new_y == Max(0, Min(Len(b.lines) - 1, b.cursor_y + dy))
        new_x == Max(0, Min(Len(b.lines[new_y + 1]), b.cursor_x + dx))
    IN [b EXCEPT !.cursor_y = new_y,
                 !.cursor_x = new_x,
                 !.scroll_y = adjust_scroll(new_y, b.scroll_y, max_y)]

\* goto_line that puts the target line on the top row instead of centring it
goto_line_top(b, line_num, max_y) ==
    LET target_line == Max(0, Min(Len(b.lines) - 1, line_num - 1)) IN
    [b EXCEPT !.cursor_y = target_line,
              !.cursor_x = 0,
              !.scroll_y = target_line]

goto_line(b, line_num, max_y) ==
    LET target_line == Max(0, Min(Len(b.lines) - 1, line_num - 1)) IN
    [b EXCEPT !.cursor_y = target_line,
              !.cursor_x = 0,
              !.scroll_y = IF target_line >= max_y \div 2
                           THEN Max(0, target_line - max_y \div 2)
                           ELSE 0]

----------------------------------------------------------------------------
(* The state every run starts from, apart from its buffers and files. *)

\* terminal heights of the runs; the text area is height - 3 rows
TermHeights == {4, 5}

ViewRows == height - 3

Last(op, arg, ret) == [op |-> op, arg |-> arg, ret |-> ret, raised |-> FALSE]
NoLast(op) == Last(op, <<>>, "None")

\* PixelatedGifPlayer.__init__, with the threads not started, nothing typed
\* and nothing put into or taken from the queue.  frame_data is the number
\* of frames loaded, 0 for none.
PixelatedGifPlayer ==
    [state |-> "stopped", current_playlist |-> <<>>, current_index |-> 0,
     current_frame |-> 0, total_frames |-> 0, frame_data |-> 0,
     input_queue |-> <<>>, loop_current |-> TRUE,
     main |-> "idle", input_thread |-> "idle",
     stdin |-> <<>>, typed |-> 0, enqueued |-> <<>>, consumed |-> <<>>]

SessionInit ==
    /\ current_tab = 0
    /\ search_mode = FALSE
    /\ goto_mode = FALSE
    /\ query = <<>>
    /\ line_str = <<>>
    /\ search_manager = [query |-> <<>>, matches |-> <<>>, current_match |-> -1,
                         case_sensitive |-> FALSE]
    /\ current_theme = "default"
    /\ syntax_enabled = TRUE
    /\ message = ""
    /\ running = TRUE
    /\ last = NoLast("init")
    /\ player = PixelatedGifPlayer

\* the files a run may find on disk: none, or "a.py" with one of these texts
SeedContents == {<<>>, <<LF>>, <<CH_a, LF>>, <<CH_a, CR, LF, CH_A>>}
SeedFiles == {[p \in Paths |-> NoFile]}
             \cup {[p \in Paths |-> File(c)] : c \in SeedContents}
\* the same for the session runs: no file, or "a.py" holding "a\n"
SessFiles == {[p \in Paths |-> NoFile], [p \in Paths |-> File(<<CH_a, LF>>)]}

----------------------------------------------------------------------------
(* The TextBuffer runs: one buffer, tabs[1], driven through the methods of *)
(* the class with any arguments.                                           *)

sessionVars == <<current_tab, search_mode, goto_mode, query, line_str,
                 search_manager, current_theme, syntax_enabled, running,
                 height, lim, player>>

\* the characters in all buffers together
RECURSIVE TotalChars(_)
TotalChars(ts) ==
    IF ts = <<>> THEN 0 ELSE SumLen(Head(ts).lines) + TotalChars(Tail(ts))

RoomForChar(b) == TotalChars(tabs) < lim.chars
RoomForLine(b) == Len(b.lines) < lim.lines

\* TextBuffer() on an empty disk, or TextBuffer("a.py") of a three-line file
BufInit ==
    /\ SessionInit
    /\ height \in TermHeights
    /\ lim = [lines |-> MaxLines, chars |-> MaxChars, tabs |-> 1]
    /\ \/ /\ fs = [p \in Paths |-> NoFile]
          /\ tabs = <<NewBuffer(None, fs, TRUE)>>
       \/ /\ fs = [p \in Paths |-> File(<<CH_a, LF, LF, CH_A>>)]
          /\ tabs = <<NewBuffer(Path_py, fs, TRUE)>>

BufInsertChar ==
    /\ RoomForChar(tabs[1])
    /\ \E c \in Chars :
           /\ tabs' = [tabs EXCEPT ![1] = insert_char(@, c)]
           /\ last' = Last("insert_char", <<c>>, "None")
    /\ UNCHANGED <<sessionVars, fs, message>>

BufDeleteChar ==
    /\ tabs' = [tabs EXCEPT ![1] = delete_char(@)]
    /\ last' = NoLast("delete_char")
    /\ UNCHANGED <<sessionVars, fs, message>>

BufDeleteForward ==
    /\ tabs' = [tabs EXCEPT ![1] = delete_forward(@)]
    /\ last' = NoLast("delete_forward")
    /\ UNCHANGED <<sessionVars, fs, message>>

BufInsertNewline ==
    /\ RoomForLine(tabs[1])
    /\ tabs' = [tabs EXCEPT ![1] = insert_newline(@)]
    /\ last' = NoLast("insert_newline")
    /\ UNCHANGED <<sessionVars, fs, message>>

BufMoveCursor ==
    /\ \E dx \in -MaxDelta..MaxDelta, dy \in -MaxDelta..MaxDelta :
           /\ tabs' = [tabs EXCEPT ![1] = move_cursor(@, dx, dy, ViewRows)]
           /\ last' = Last("move_cursor", <<dx, dy>>, "None")
    /\ UNCHANGED <<sessionVars, fs, message>>

BufGotoLine ==
    /\ \E n \in 0..MaxGoto :
           /\ tabs' = [tabs EXCEPT ![1] = goto_line(@, n, ViewRows)]
           /\ last' = Last("goto_line", <<n>>, "None")
    /\ UNCHANGED <<sessionVars, fs, message>>

BufNext ==
    \/ BufInsertChar
    \/ BufDeleteChar
    \/ BufDeleteForward
    \/ BufInsertNewline
    \/ BufMoveCursor
    \/ BufGotoLine

SpecBuffer == BufInit /\ [][BufNext]_vars

----------------------------------------------------------------------------
(* The TextBuffer runs with files: the methods above, save_file with and   *)
(* without a path, and TextBuffer(path), which is the only caller of       *)
(* load_file.                                                              *)

IoOutcomes == {"ok", "open_fails", "write_fails"}

\* how TextBuffer(filename) went: no file to load, a read, or a failed read
LoadOutcome(filename, files, readable) ==
    IF ~(Truthy(filename) /\ Exists(files, filename)) THEN "no_file"
    ELSE IF readable THEN "read" ELSE "read_error"

FileInit ==
    /\ SessionInit
    /\ height = 5
    /\ lim = [lines |-> FileLines, chars |-> FileChars, tabs |-> 1]
    /\ fs \in SeedFiles
    /\ tabs = <<NewBuffer(None, fs, TRUE)>>

BufSaveFile ==
    /\ \E f \in {None, Path_py}, io \in IoOutcomes :
           LET r == save_file(tabs[1], f, io) IN
           /\ tabs' = [tabs EXCEPT ![1] = r.buf]
           /\ fs' = Written(fs, r)
           /\ last' = [op |-> "save_file", arg |-> <<f, io>>, ret |-> r.ret,
                       raised |-> r.raised]
    /\ UNCHANGED <<sessionVars, message>>

BufConstruct ==
    /\ \E f \in {None, Path_py}, readable \in BOOLEAN :
           /\ tabs' = <<NewBuffer(f, fs, readable)>>
           /\ last' = Last("construct", f, LoadOutcome(f, fs, readable))
    /\ UNCHANGED <<sessionVars, fs, message>>

FileNext ==
    \/ BufInsertChar
    \/ BufDeleteChar
    \/ BufDeleteForward
    \/ BufInsertNewline
    \/ BufSaveFile
    \/ BufConstruct

SpecFile == FileInit /\ [][FileNext]_vars

----------------------------------------------------------------------------
(* SearchManager *)

\* str.find(pat, pos) on code-point sequences, zero-based; -1 when absent
Find(str, pat, pos) ==
    LET hits == {i \in pos..(Len(str) - Len(pat)) :
                     SubSeq(str, i + 1, i + Len(pat)) = pat}
    IN IF hits = {} THEN -1
       ELSE CHOOSE i \in hits : \A j \in hits : i <= j

\* the while loop of search over one line, from pos on
RECURSIVE LineMatches(_, _, _, _, _)
LineMatches(line_num, search_line, pattern, pos, qlen) ==
    LET at == Find(search_line, pattern, pos) IN
    IF at = -1 THEN <<>>
    ELSE <<<<line_num, at, at + qlen>>>>
         \o LineMatches(line_num, search_line, pattern, at + 1, qlen)

\* the for loop of search over lines[k..], k one-based
RECURSIVE AllMatches(_, _, _, _)
AllMatches(lines, k, q, case_sensitive) ==
    IF k > Len(lines) THEN <<>>
    ELSE LineMatches(k - 1,
                     IF case_sensitive THEN lines[k] ELSE Lower(lines[k]),
                     IF case_sensitive THEN q ELSE Lower(q),
                     0, Len(q))
         \o AllMatches(lines, k + 1, q, case_sensitive)

\* search without the early return on an empty query
search_unguarded(sm, lines, q, case_sensitive) ==
    [sm EXCEPT !.query = q,
               !.case_sensitive = case_sensitive,
               !.matches = AllMatches(lines, 1, q, case_sensitive)]

\* SearchManager.search: current_match is left as it was
search(sm, lines, q, case_sensitive) ==
    [sm EXCEPT !.query = q,
               !.case_sensitive = case_sensitive,
               !.matches = IF Truthy(q)
                           THEN AllMatches(lines, 1, q, case_sensitive)
                           ELSE <<>>]

\* the index (zero-based) next_match stops at, -1 when matches is empty
NextIndex(matches, current_line, current_col) ==
    LET after == {i \in 1..Len(matches) :
                      \/ matches[i][1] > current_line
                      \/ /\ matches[i][1] = current_line
                         /\ matches[i][2] > current_col}
    IN IF matches = <<>> THEN -1
       ELSE IF after # {} THEN (CHOOSE i \in after : \A j \in after : i <= j) - 1
       ELSE 0

\* next_match that also accepts a match starting at the given position
next_match_at_or_after(sm, current_line, current_col) ==
    LET after == {i \in 1..Len(sm.matches) :
                      \/ sm.matches[i][1] > current_line
                      \/ /\ sm.matches[i][1] = current_line
                         /\ sm.matches[i][2] >= current_col}
        i == IF after # {} THEN CHOOSE j \in after : \A k \in after : j <= k
             ELSE 1
    IN IF sm.matches = <<>> THEN [sm |-> sm, ret |-> <<>>]
       ELSE [sm |-> [sm EXCEPT !.current_match = i - 1],
             ret |-> <<sm.matches[i][1], sm.matches[i][2]>>]

\* SearchManager.next_match: the manager after the call and the (line, start)
\* it returned, <<>> for None
next_match(sm, current_line, current_col) ==
    LET i == NextIndex(sm.matches, current_line, current_col) IN
    IF i = -1 THEN [sm |-> sm, ret |-> <<>>]
    ELSE [sm |-> [sm EXCEPT !.current_match = i],
          ret |-> <<sm.matches[i + 1][1], sm.matches[i + 1][2]>>]

----------------------------------------------------------------------------
(* The SearchManager runs: the lines of one loaded file are searched for   *)
(* any query, with and without case, and next_match is called from any     *)
(* cursor position of the file.                                            *)

\* the characters of the searched files; the queries are typed, so they are
\* made of key codes
SearchAlphabet == {CH_a, CH_A, CH_IDOT}

\* the sequences over S of length at most n
RECURSIVE SeqsUpTo(_, _)
SeqsUpTo(S, n) ==
    IF n = 0 THEN {<<>>}
    ELSE LET shorter == SeqsUpTo(S, n - 1)
         IN shorter \cup {Append(t, x) : t \in shorter, x \in S}

SearchContents == SeqsUpTo(SearchAlphabet \cup {LF}, SearchChars)
Queries == SeqsUpTo(Chars, SearchQuery)

SearchInit ==
    /\ SessionInit
    /\ height = 5
    /\ lim = [lines |-> SearchChars, chars |-> SearchChars, tabs |-> 1]
    /\ \E c \in SearchContents : fs = [p \in Paths |-> File(c)]
    /\ tabs = <<NewBuffer(Path_py, fs, TRUE)>>

\* search_manager.search(buffer.lines, q, case_sensitive)
SmSearch ==
    /\ \E q \in Queries, case_sensitive \in BOOLEAN :
           /\ search_manager' = search(search_manager, tabs[1].lines, q,
                                       case_sensitive)
           /\ last' = Last("search", <<q, case_sensitive>>, "None")
    /\ UNCHANGED <<tabs, current_tab, search_mode, goto_mode, query, line_str,
                   current_theme, syntax_enabled, fs, message, running,
                   height, lim, player>>

\* search_manager.next_match(line, col) for a cursor position of the file
SmNextMatch ==
    /\ \E line \in 0..(Len(tabs[1].lines) - 1) :
           \E col \in 0..Len(tabs[1].lines[line + 1]) :
               LET r == next_match(search_manager, line, col) IN
               /\ search_manager' = r.sm
               /\ last' = Last("next_match", <<line, col>>,
                               IF r.ret = <<>> THEN "None" ELSE "match")
    /\ UNCHANGED <<tabs, current_tab, search_mode, goto_mode, query, line_str,
                   current_theme, syntax_enabled, fs, message, running,
                   height, lim, player>>

SearchNext ==
    \/ SmSearch
    \/ SmNextMatch

SpecSearch == SearchInit /\ [][SearchNext]_vars

----------------------------------------------------------------------------
(* Theme *)

\* list(self.themes.keys()): the palettes in registration order
ThemeNames == <<"default", "dark", "light">>

ThemeIndex(name) == CHOOSE i \in 1..Len(ThemeNames) : ThemeNames[i] = name

\* next_theme that toggles between the first two themes
next_theme_two(name) == IF name = "default" THEN "dark" ELSE "default"

\* Theme.next_theme
next_theme(name) == ThemeNames[(ThemeIndex(name) % Len(ThemeNames)) + 1]

\* the elements of every theme of Theme.themes, in the order of the dict
Elements ==
    <<"tab_bar", "active_tab", "status_bar", "text", "keyword", "comment",
      "string", "number", "special", "search_highlight">>

ElementIndex(element) ==
    CHOOSE i \in 1..Len(Elements) : Elements[i] = element

\* Theme.themes: (foreground, background) of every element of every theme
themes ==
    [default |->
        [tab_bar |-> <<"BLACK", "CYAN">>, active_tab |-> <<"BLACK", "WHITE">>,
         status_bar |-> <<"BLACK", "CYAN">>, text |-> <<"WHITE", "BLACK">>,
         keyword |-> <<"YELLOW", "BLACK">>, comment |-> <<"GREEN", "BLACK">>,
         string |-> <<"MAGENTA", "BLACK">>, number |-> <<"CYAN", "BLACK">>,
         special |-> <<"RED", "BLACK">>,
         search_highlight |-> <<"BLACK", "YELLOW">>],
     dark |->
        [tab_bar |-> <<"WHITE", "BLACK">>, active_tab |-> <<"BLACK", "WHITE">>,
         status_bar |-> <<"WHITE", "BLACK">>, text |-> <<"WHITE", "BLACK">>,
         keyword |-> <<"BLUE", "BLACK">>, comment |-> <<"GREEN", "BLACK">>,
         string |-> <<"RED", "BLACK">>, number |-> <<"CYAN", "BLACK">>,
         special |-> <<"MAGENTA", "BLACK">>,
         search_highlight |-> <<"BLACK", "YELLOW">>],
     light |->
        [tab_bar |-> <<"BLACK", "WHITE">>, active_tab |-> <<"WHITE", "BLACK">>,
         status_bar |-> <<"BLACK", "WHITE">>, text |-> <<"BLACK", "WHITE">>,
         keyword |-> <<"BLUE", "WHITE">>, comment |-> <<"GREEN", "WHITE">>,
         string |-> <<"RED", "WHITE">>, number |-> <<"MAGENTA", "WHITE">>,
         special |-> <<"CYAN", "WHITE">>,
         search_highlight |-> <<"WHITE", "BLUE">>]]

\* Theme.init_colors: pair numbers count up from 1 over the themes and,
\* inside a theme, over its elements
color_pairs ==
    [name \in {ThemeNames[i] : i \in 1..Len(ThemeNames)} |->
        [element \in {Elements[i] : i \in 1..Len(Elements)} |->
            (ThemeIndex(name) - 1) * Len(Elements) + ElementIndex(element)]]

\* Theme.get_color: the pair of the element in the theme, 0 for an element
\* the theme does not have
get_color(theme, element) ==
    IF element \in DOMAIN color_pairs[theme]
    THEN color_pairs[theme][element]
    ELSE 0

\* curses: the colours a pair number shows; init_pair set those of the pairs
\* from 1 on, pair 0 is the terminal's white on black
pair_content(pair) ==
    IF pair = 0 THEN <<"WHITE", "BLACK">>
    ELSE LET name == ThemeNames[((pair - 1) \div Len(Elements)) + 1]
             element == Elements[((pair - 1) % Len(Elements)) + 1]
         IN themes[name][element]

\* element names no theme has
UnknownElements == {"function", "", "Text"}

----------------------------------------------------------------------------
(* TerminalNotepad: the tab list. *)

\* __init__: one buffer per initial file, or one empty buffer; readable[i]
\* says whether reading file i goes through
InitialTabs(initial_files, files, readable) ==
    IF initial_files # <<>>
    THEN [i \in 1..Len(initial_files) |->
              NewBuffer(initial_files[i], files, readable[i])]
    ELSE <<NewBuffer(None, files, TRUE)>>

\* add_tab that selects the tab that was last before the new one
add_tab_previous(ts, filename, files, readable) ==
    [tabs |-> Append(ts, NewBuffer(filename, files, readable)),
     current_tab |-> Len(ts) - 1]

\* add_tab, close_tab, switch_tab: the new (tabs, current_tab)
add_tab(ts, filename, files, readable) ==
    [tabs |-> Append(ts, NewBuffer(filename, files, readable)),
     current_tab |-> Len(ts)]

\* close_tab that removes the last tab instead of the current one
close_tab_last(ts, cur) ==
    IF Len(ts) > 1
    THEN [tabs |-> SubSeq(ts, 1, Len(ts) - 1),
          current_tab |-> IF cur >= Len(ts) - 1 THEN Len(ts) - 2 ELSE cur]
    ELSE [tabs |-> ts, current_tab |-> cur]

\* close_tab without the re-clamp of current_tab
close_tab_unclamped(ts, cur) ==
    IF Len(ts) > 1
    THEN [tabs |-> DelAt(ts, cur), current_tab |-> cur]
    ELSE [tabs |-> ts, current_tab |-> cur]

close_tab(ts, cur) ==
    IF Len(ts) > 1
    THEN LET rest == DelAt(ts, cur) IN
         [tabs |-> rest,
          current_tab |-> IF cur >= Len(rest) THEN Len(rest) - 1 ELSE cur]
    ELSE [tabs |-> ts, current_tab |-> cur]

\* switch_tab that stops at the first and the last tab
switch_tab_clamped(ts, cur, direction) ==
    IF Len(ts) > 1 THEN Max(0, Min(Len(ts) - 1, cur + direction)) ELSE cur

switch_tab(ts, cur, direction) ==
    IF Len(ts) > 1 THEN (cur + direction) % Len(ts) ELSE cur

\* get_current_buffer
Buf == tabs[current_tab + 1]

\* every slot of the tab list holding the one buffer b
WithBuf_shared(b) == [i \in DOMAIN tabs |-> b]

\* the tab list with the current buffer replaced by b
WithBuf(b) == [tabs EXCEPT ![current_tab + 1] = b]

----------------------------------------------------------------------------
(* Key codes of the run loop and of the two prompts. *)

KEY_NONE == -1
CTRL_F == 6
CTRL_G == 7
CTRL_H == 8
KEY_TAB == 9
KEY_ENTER == 10
CTRL_N == 14
CTRL_O == 15
CTRL_Q == 17
CTRL_S == 19
CTRL_T == 20
CTRL_W == 23
KEY_ESC == 27
KEY_DEL127 == 127
KEY_DOWN == 258
KEY_UP == 259
KEY_LEFT == 260
KEY_RIGHT == 261
KEY_HOME == 262
KEY_BACKSPACE == 263
KEY_F3 == 267
KEY_DC == 330
KEY_NPAGE == 338
KEY_PPAGE == 339
KEY_END == 360
CTRL_RIGHT == 545
CTRL_LEFT == 560

SPACE == 32
TILDE == 126
DIGIT_0 == 48
DIGIT_9 == 57

Printable(key) == SPACE <= key /\ key <= TILDE
IsDigit(key) == DIGIT_0 <= key /\ key <= DIGIT_9

\* the digits the runs type into the goto prompt: 0, 1, 3
GotoDigits == {48, 49, 51}

\* int(line_str) for a string of digits; the empty string raises ValueError
RECURSIVE ParseInt(_)
ParseInt(str) ==
    IF str = <<>> THEN 0
    ELSE 10 * ParseInt(SubSeq(str, 1, Len(str) - 1)) + (str[Len(str)] - DIGIT_0)

\* str.strip
Whitespace == {9, 10, 11, 12, 13, 28, 29, 30, 31, 32}
RECURSIVE Strip(_)
Strip(str) ==
    IF str = <<>> THEN str
    ELSE IF str[1] \in Whitespace THEN Strip(Tail(str))
    ELSE IF str[Len(str)] \in Whitespace THEN Strip(SubSeq(str, 1, Len(str) - 1))
    ELSE str

\* what the user types at the "Open file:" and "Save as:" prompts
TypedNames == {<<>>, <<SPACE>>, Path_py, Path_py \o <<SPACE>>}

----------------------------------------------------------------------------
(* TerminalNotepad.run: one action per key of the event loop.  Each action *)
(* is one pass of the loop: the key is read, handled, and the screen is    *)
(* redrawn, which wipes what handle_save wrote on the status line.         *)

Normal == running /\ ~search_mode /\ ~goto_mode

promptVars == <<search_mode, goto_mode, query, line_str>>
displayVars == <<current_theme, syntax_enabled>>
envVars == <<running, height, lim, player>>

\* a key that only changes the current buffer
BufferKey(op, arg, b) ==
    /\ Normal
    /\ tabs' = WithBuf(b)
    /\ last' = Last(op, arg, "None")
    /\ message' = ""
    /\ UNCHANGED <<current_tab, promptVars, search_manager, displayVars, fs,
                   envVars>>

\* a key that only changes the tab list
TabKey(op, r) ==
    /\ Normal
    /\ tabs' = r.tabs
    /\ current_tab' = r.current_tab
    /\ last' = NoLast(op)
    /\ message' = ""
    /\ UNCHANGED <<promptVars, search_manager, displayVars, fs, envVars>>

\* key == -1: getch timed out
KeyIdle ==
    /\ Normal
    /\ last' = NoLast("idle")
    /\ message' = ""
    /\ UNCHANGED <<tabs, current_tab, promptVars, search_manager, displayVars,
                   fs, envVars>>

\* Ctrl+Q
KeyQuit ==
    /\ Normal
    /\ running' = FALSE
    /\ last' = NoLast("quit")
    /\ message' = ""
    /\ UNCHANGED <<tabs, current_tab, promptVars, search_manager, displayVars,
                   fs, height, lim, player>>

\* Ctrl+N
KeyNewTab ==
    /\ Len(tabs) < lim.tabs
    /\ TabKey("new_tab", add_tab(tabs, None, fs, TRUE))

\* Ctrl+O: handle_open
KeyOpen ==
    \E typed \in TypedNames, readable \in BOOLEAN :
        LET name == Strip(typed)
            opens == Truthy(name) /\ Exists(fs, name)
            r == IF opens THEN add_tab(tabs, name, fs, readable)
                 ELSE [tabs |-> tabs, current_tab |-> current_tab]
        IN /\ opens => Len(tabs) < lim.tabs
           /\ Normal
           /\ tabs' = r.tabs
           /\ current_tab' = r.current_tab
           /\ last' = Last("open", <<typed>>, "None")
           /\ message' = ""
           /\ UNCHANGED <<promptVars, search_manager, displayVars, fs,
                          envVars>>

\* Ctrl+S: handle_save.  typed is read only when the buffer has no filename.
KeySave ==
    /\ Normal
    /\ \E typed \in TypedNames, io \in IoOutcomes :
           LET asks == ~Truthy(Buf.filename)
               named == IF asks /\ Truthy(Strip(typed))
                        THEN [Buf EXCEPT !.filename = Strip(typed)] ELSE Buf
               r == save_file(named, None, io)
           IN /\ ~asks => typed = <<>>
              /\ tabs' = WithBuf(r.buf)
              /\ fs' = Written(fs, r)
              /\ message' = IF r.ret = "True" THEN "Saved" ELSE ""
              /\ last' = [op |-> "save", arg |-> <<typed, io>>, ret |-> r.ret,
                          raised |-> r.raised]
    /\ UNCHANGED <<current_tab, promptVars, search_manager, displayVars,
                   envVars>>

\* Ctrl+W
KeyCloseTab == TabKey("close_tab", close_tab(tabs, current_tab))

\* Tab and Ctrl+Right
KeyNextTab ==
    TabKey("next_tab",
           [tabs |-> tabs, current_tab |-> switch_tab(tabs, current_tab, 1)])

\* Ctrl+Left
KeyPrevTab ==
    TabKey("prev_tab",
           [tabs |-> tabs, current_tab |-> switch_tab(tabs, current_tab, -1)])

\* Ctrl+T
KeyTheme ==
    /\ Normal
    /\ current_theme' = next_theme(current_theme)
    /\ last' = NoLast("theme")
    /\ message' = ""
    /\ UNCHANGED <<tabs, current_tab, promptVars, search_manager,
                   syntax_enabled, fs, envVars>>

\* Ctrl+H
KeySyntax ==
    /\ Normal
    /\ syntax_enabled' = ~syntax_enabled
    /\ last' = NoLast("syntax")
    /\ message' = ""
    /\ UNCHANGED <<tabs, current_tab, promptVars, search_manager,
                   current_theme, fs, envVars>>

\* the cursor put on a match as it is, without move_cursor
JumpTo_unclamped(b, match) ==
    [b EXCEPT !.cursor_y = match[1], !.cursor_x = match[2]]

\* the cursor put on a match and the scroll adjusted: the two lines that
\* follow a successful next_match in handle_search and under F3
JumpTo(b, match) ==
    move_cursor([b EXCEPT !.cursor_y = match[1], !.cursor_x = match[2]],
                0, 0, ViewRows)

\* F3
KeyFindNext ==
    /\ Normal
    /\ LET r == next_match(search_manager, Buf.cursor_y, Buf.cursor_x)
           hit == search_manager.matches # <<>> /\ r.ret # <<>>
       IN /\ search_manager' = IF search_manager.matches # <<>>
                               THEN r.sm ELSE search_manager
          /\ tabs' = IF hit THEN WithBuf(JumpTo(Buf, r.ret)) ELSE tabs
    /\ last' = NoLast("find_next")
    /\ message' = ""
    /\ UNCHANGED <<current_tab, promptVars, displayVars, fs, envVars>>

KeyUp == BufferKey("up", <<>>, move_cursor(Buf, 0, -1, ViewRows))
KeyDown == BufferKey("down", <<>>, move_cursor(Buf, 0, 1, ViewRows))
KeyLeft == BufferKey("left", <<>>, move_cursor(Buf, -1, 0, ViewRows))
KeyRight == BufferKey("right", <<>>, move_cursor(Buf, 1, 0, ViewRows))
KeyHome == BufferKey("home", <<>>, [Buf EXCEPT !.cursor_x = 0])
KeyEnd == BufferKey("end", <<>>, [Buf EXCEPT !.cursor_x = Len(CurLine(Buf))])
KeyPageUp == BufferKey("page_up", <<>>, move_cursor(Buf, 0, -ViewRows, ViewRows))
KeyPageDown == BufferKey("page_down", <<>>, move_cursor(Buf, 0, ViewRows, ViewRows))
KeyBackspace == BufferKey("backspace", <<>>, delete_char(Buf))
KeyDelete == BufferKey("delete", <<>>, delete_forward(Buf))

\* Enter
KeyEnter ==
    /\ RoomForLine(Buf)
    /\ BufferKey("enter", <<>>, insert_newline(Buf))

\* 32 <= key <= 126
KeyChar ==
    /\ RoomForChar(Buf)
    /\ \E key \in Chars :
           /\ Printable(key)
           /\ BufferKey("char", <<key>>, insert_char(Buf, key))

----------------------------------------------------------------------------
(* handle_search and handle_goto: the prompts.  Each has its own getch     *)
(* loop, so while one is open the keys of the run loop are not dispatched. *)

\* Ctrl+F: handle_search up to its first getch
KeySearch ==
    /\ Normal
    /\ search_mode' = TRUE
    /\ query' = <<>>
    /\ last' = NoLast("search")
    /\ message' = ""
    /\ UNCHANGED <<tabs, current_tab, goto_mode, line_str, search_manager,
                   displayVars, fs, envVars>>

\* Ctrl+G: handle_goto up to its first getch
KeyGoto ==
    /\ Normal
    /\ goto_mode' = TRUE
    /\ line_str' = <<>>
    /\ last' = NoLast("goto")
    /\ message' = ""
    /\ UNCHANGED <<tabs, current_tab, search_mode, query, search_manager,
                   displayVars, fs, envVars>>

InSearch == running /\ search_mode
InGoto == running /\ goto_mode

\* keys neither prompt has a branch for
OtherKeys == {KEY_NONE, CTRL_Q, KEY_UP, KEY_DC}

\* Escape in handle_search that also drops the matches of the last search
SearchEscape_clears_matches ==
    /\ InSearch
    /\ search_mode' = FALSE
    /\ query' = <<>>
    /\ search_manager' = [search_manager EXCEPT !.matches = <<>>,
                                                !.current_match = -1]
    /\ last' = NoLast("search_escape")
    /\ UNCHANGED <<tabs, current_tab, goto_mode, line_str, displayVars, fs,
                   message, envVars>>

\* key == 27 in handle_search
SearchEscape ==
    /\ InSearch
    /\ search_mode' = FALSE
    /\ query' = <<>>
    /\ last' = NoLast("search_escape")
    /\ UNCHANGED <<tabs, current_tab, goto_mode, line_str, search_manager,
                   displayVars, fs, message, envVars>>

\* key == 10 or 13 in handle_search
SearchEnter ==
    /\ InSearch
    /\ LET sm1 == IF Truthy(query)
                  THEN search(search_manager, Buf.lines, query, FALSE)
                  ELSE search_manager
           r == next_match(sm1, Buf.cursor_y, Buf.cursor_x)
           hit == Truthy(query) /\ sm1.matches # <<>> /\ r.ret # <<>>
       IN /\ search_manager' = IF Truthy(query) /\ sm1.matches # <<>>
                               THEN r.sm ELSE sm1
          /\ tabs' = IF hit THEN WithBuf(JumpTo(Buf, r.ret)) ELSE tabs
    /\ search_mode' = FALSE
    /\ query' = <<>>
    /\ last' = Last("search_enter", query, "None")
    /\ UNCHANGED <<current_tab, goto_mode, line_str, displayVars, fs, message,
                   envVars>>

\* key == KEY_BACKSPACE or 127 in handle_search
SearchBackspace ==
    /\ InSearch
    /\ query' = PySlice(query, 0, Len(query) - 1)
    /\ last' = NoLast("search_backspace")
    /\ UNCHANGED <<tabs, current_tab, search_mode, goto_mode, line_str,
                   search_manager, displayVars, fs, message, envVars>>

\* 32 <= key <= 126 in handle_search
SearchChar ==
    /\ InSearch
    /\ Len(query) < MaxQuery
    /\ \E key \in Chars :
           /\ Printable(key)
           /\ query' = Append(query, key)
           /\ last' = Last("search_char", <<key>>, "None")
    /\ UNCHANGED <<tabs, current_tab, search_mode, goto_mode, line_str,
                   search_manager, displayVars, fs, message, envVars>>

\* handle_search with Ctrl+Q leaving the program from inside the prompt
SearchOther_quits ==
    /\ InSearch
    /\ \E key \in OtherKeys :
           /\ last' = Last("search_other", <<key>>, "None")
           /\ running' = (key # CTRL_Q)
    /\ UNCHANGED <<tabs, current_tab, promptVars, search_manager, displayVars,
                   fs, message, height, lim, player>>

\* any other key in handle_search, Ctrl+Q and the getch timeout included
SearchOther ==
    /\ InSearch
    /\ \E key \in OtherKeys : last' = Last("search_other", <<key>>, "None")
    /\ UNCHANGED <<tabs, current_tab, promptVars, search_manager, displayVars,
                   fs, message, envVars>>

\* key == 27 in handle_goto
GotoEscape ==
    /\ InGoto
    /\ goto_mode' = FALSE
    /\ line_str' = <<>>
    /\ last' = NoLast("goto_escape")
    /\ UNCHANGED <<tabs, current_tab, search_mode, query, search_manager,
                   displayVars, fs, message, envVars>>

\* key == 10 or 13 in handle_goto; int("") raises ValueError, which is passed
GotoEnter ==
    /\ InGoto
    /\ tabs' = IF line_str # <<>>
               THEN WithBuf(goto_line(Buf, ParseInt(line_str), ViewRows))
               ELSE tabs
    /\ goto_mode' = FALSE
    /\ line_str' = <<>>
    /\ last' = Last("goto_enter", line_str, "None")
    /\ UNCHANGED <<current_tab, search_mode, query, search_manager,
                   displayVars, fs, message, envVars>>

\* key == KEY_BACKSPACE or 127 in handle_goto
GotoBackspace ==
    /\ InGoto
    /\ line_str' = PySlice(line_str, 0, Len(line_str) - 1)
    /\ last' = NoLast("goto_backspace")
    /\ UNCHANGED <<tabs, current_tab, search_mode, goto_mode, query,
                   search_manager, displayVars, fs, message, envVars>>

\* 48 <= key <= 57 in handle_goto
GotoDigit ==
    /\ InGoto
    /\ Len(line_str) < MaxDigits
    /\ \E key \in GotoDigits :
           /\ IsDigit(key)
           /\ line_str' = Append(line_str, key)
           /\ last' = Last("goto_digit", <<key>>, "None")
    /\ UNCHANGED <<tabs, current_tab, search_mode, goto_mode, query,
                   search_manager, displayVars, fs, message, envVars>>

\* handle_goto that takes every printable key into line_str
GotoOther_appends ==
    /\ InGoto
    /\ \E key \in OtherKeys \cup Chars :
           /\ last' = Last("goto_other", <<key>>, "None")
           /\ line_str' = IF Printable(key) /\ Len(line_str) < MaxDigits
                          THEN Append(line_str, key) ELSE line_str
    /\ UNCHANGED <<tabs, current_tab, search_mode, goto_mode, query,
                   search_manager, displayVars, fs, message, envVars>>

\* any other key in handle_goto: letters, Ctrl+Q, the getch timeout
GotoOther ==
    /\ InGoto
    /\ \E key \in OtherKeys \cup Chars :
           last' = Last("goto_other", <<key>>, "None")
    /\ UNCHANGED <<tabs, current_tab, promptVars, search_manager, displayVars,
                   fs, message, envVars>>

----------------------------------------------------------------------------
(* The session with one document: main() builds the notepad from the       *)
(* command line, then the event loop edits, moves and saves.               *)

Init ==
    /\ SessionInit
    /\ height \in TermHeights
    /\ lim = [lines |-> SessLines, chars |-> SessChars, tabs |-> 1]
    /\ fs \in SessFiles
    /\ \E files \in {<<>>, <<Path_py>>}, readable \in BOOLEAN :
           tabs = InitialTabs(files, fs, [i \in 1..Len(files) |-> readable])

Next ==
    \/ KeyIdle
    \/ KeyQuit
    \/ KeySave
    \/ KeyUp
    \/ KeyDown
    \/ KeyLeft
    \/ KeyRight
    \/ KeyHome
    \/ KeyEnd
    \/ KeyPageUp
    \/ KeyPageDown
    \/ KeyBackspace
    \/ KeyDelete
    \/ KeyEnter
    \/ KeyChar

Spec == Init /\ [][Next]_vars

----------------------------------------------------------------------------
(* The session with several tabs: tabs are opened, closed and switched,    *)
(* the display is toggled, and a little text is typed.                     *)

InitialFileLists == {<<>>, <<Path_py>>, <<None, Path_py>>, <<Path_py, Path_py>>}

TabsInit ==
    /\ SessionInit
    /\ height = 5
    /\ lim = [lines |-> 1, chars |-> TabsChars, tabs |-> TabsMax]
    /\ fs \in SessFiles
    /\ \E files \in InitialFileLists :
           tabs = InitialTabs(files, fs, [i \in 1..Len(files) |-> TRUE])

TabsNext ==
    \/ KeyIdle
    \/ KeyQuit
    \/ KeyNewTab
    \/ KeyOpen
    \/ KeyCloseTab
    \/ KeyNextTab
    \/ KeyPrevTab
    \/ KeyTheme
    \/ KeySyntax
    \/ KeyChar

SpecTabs == TabsInit /\ [][TabsNext]_vars

----------------------------------------------------------------------------
(* The session with the prompts: one document of two lines is searched,    *)
(* jumped in and shortened between searches.                               *)

PromptsInit ==
    /\ SessionInit
    /\ height \in TermHeights
    /\ lim = [lines |-> SessLines, chars |-> MaxChars, tabs |-> 1]
    /\ fs = [p \in Paths |-> File(<<CH_a, CH_A, LF, CH_a>>)]
    /\ tabs = InitialTabs(<<Path_py>>, fs, <<TRUE>>)

PromptsNext ==
    \/ KeyIdle
    \/ KeyQuit
    \/ KeySearch
    \/ SearchEscape
    \/ SearchEnter
    \/ SearchBackspace
    \/ SearchChar
    \/ SearchOther
    \/ KeyGoto
    \/ GotoEscape
    \/ GotoEnter
    \/ GotoBackspace
    \/ GotoDigit
    \/ GotoOther
    \/ KeyFindNext
    \/ KeyUp
    \/ KeyDown
    \/ KeyBackspace
    \/ KeyDelete

SpecPrompts == PromptsInit /\ [][PromptsNext]_vars

----------------------------------------------------------------------------
(* The whole event loop but for the file and display commands:             *)
(* terminal_clock.py a.py, a file of an empty line and a line 'a', with a  *)
(* second, untitled tab.                                                    *)

RunInit ==
    /\ SessionInit
    /\ height = 4
    /\ lim = [lines |-> RunLines, chars |-> RunChars, tabs |-> RunTabs]
    /\ fs = [p \in Paths |-> File(<<LF, CH_a>>)]
    /\ tabs = add_tab(InitialTabs(<<Path_py>>, fs, <<TRUE>>), None, fs,
                      TRUE).tabs

RunNext ==
    \/ KeyIdle
    \/ KeyQuit
    \/ KeyNewTab
    \/ KeyCloseTab
    \/ KeyNextTab
    \/ KeyPrevTab
    \/ KeySearch
    \/ SearchEscape
    \/ SearchEnter
    \/ SearchBackspace
    \/ SearchChar
    \/ SearchOther
    \/ KeyGoto
    \/ GotoEscape
    \/ GotoEnter
    \/ GotoBackspace
    \/ GotoDigit
    \/ GotoOther
    \/ KeyFindNext
    \/ KeyUp
    \/ KeyDown
    \/ KeyLeft
    \/ KeyRight
    \/ KeyHome
    \/ KeyEnd
    \/ KeyPageUp
    \/ KeyPageDown
    \/ KeyBackspace
    \/ KeyDelete
    \/ KeyEnter
    \/ KeyChar

SpecRun == RunInit /\ [][RunNext]_vars

----------------------------------------------------------------------------
(* Two tabs, a.py holding 'a' and an untitled one, under the commands that *)
(* act on the current buffer, the tab switches and the display toggles.    *)

TwoTabsInit ==
    /\ SessionInit
    /\ height = 4
    /\ lim = [lines |-> 1, chars |-> TabsChars, tabs |-> RunTabs]
    /\ fs = [p \in Paths |-> File(<<CH_a>>)]
    /\ tabs = add_tab(InitialTabs(<<Path_py>>, fs, <<TRUE>>), None, fs,
                      TRUE).tabs

TwoTabsNext ==
    \/ KeySave
    \/ KeyNextTab
    \/ KeyPrevTab
    \/ KeyTheme
    \/ KeySyntax
    \/ KeySearch
    \/ SearchEnter
    \/ SearchChar
    \/ KeyGoto
    \/ GotoEnter
    \/ GotoDigit
    \/ KeyFindNext
    \/ KeyUp
    \/ KeyDown
    \/ KeyLeft
    \/ KeyRight
    \/ KeyHome
    \/ KeyEnd
    \/ KeyPageUp
    \/ KeyPageDown
    \/ KeyBackspace
    \/ KeyDelete
    \/ KeyChar

SpecTwoTabs == TwoTabsInit /\ [][TwoTabsNext]_vars

----------------------------------------------------------------------------
(* The prompts and find-next on a.py holding 'aA', 'a', or holding one     *)
(* line of two U+0130 and 'AA'.                                             *)

FindInit ==
    /\ SessionInit
    /\ height \in TermHeights
    /\ lim = [lines |-> SessLines, chars |-> MaxChars, tabs |-> 1]
    /\ \E c \in {<<CH_a, CH_A, LF, CH_a>>, <<CH_IDOT, CH_IDOT, CH_A, CH_A>>} :
           fs = [p \in Paths |-> File(c)]
    /\ tabs = InitialTabs(<<Path_py>>, fs, <<TRUE>>)

SpecFind == FindInit /\ [][PromptsNext]_vars

----------------------------------------------------------------------------
(* Properties of the TextBuffer. *)

\* the cursor is on a line of the buffer and within or just after its text
CursorInBounds(b) ==
    /\ 0 <= b.cursor_y
    /\ b.cursor_y < Len(b.lines)
    /\ 0 <= b.cursor_x
    /\ b.cursor_x <= Len(b.lines[b.cursor_y + 1])

\* the step was operation op on the one buffer of a TextBuffer run
Did(op) == last'.op = op

\* C1: under the TextBuffer methods (construction and load, insert_char,
\* delete_char, delete_forward, insert_newline, move_cursor, goto_line) every
\* buffer always holds at least one line, and a deletion that removes the
\* only character of a one-line buffer leaves exactly one empty line.
C1_LinesNeverEmpty ==
    /\ [](\A i \in DOMAIN tabs : Len(tabs[i].lines) >= 1)
    /\ [][(/\ Did("delete_char") \/ Did("delete_forward")
           /\ Len(tabs[1].lines) = 1
           /\ Len(tabs[1].lines[1]) = 1
           /\ tabs'[1].lines # tabs[1].lines)
          => tabs'[1].lines = <<<<>>>>]_vars

\* a one-line buffer emptied by a deletion
C1_Witness ==
    /\ last.op \in {"delete_char", "delete_forward"}
    /\ tabs[1].modified
    /\ tabs[1].lines = <<<<>>>>

\* C2: after any sequence of move_cursor (any dx, dy), insert_char,
\* delete_char, delete_forward and insert_newline calls the cursor row is a
\* row of the buffer and the cursor column is at most that row's length.
C2_CursorInBounds == \A i \in DOMAIN tabs : CursorInBounds(tabs[i])

\* move_cursor(1, 1) clamped in both directions on a buffer of several lines
C2_Witness ==
    /\ last.op = "move_cursor"
    /\ last.arg = <<1, 1>>
    /\ Len(tabs[1].lines) > 1
    /\ tabs[1].cursor_y = Len(tabs[1].lines) - 1
    /\ tabs[1].cursor_x = Len(CurLine(tabs[1]))
    /\ CursorInBounds(tabs[1])

\* C3: in every reachable state of a buffer, line joins by delete_char and
\* delete_forward included, 0 <= scroll_y <= max(0, len(lines) - 1).
C3_ScrollInBounds ==
    \A i \in DOMAIN tabs :
        /\ 0 <= tabs[i].scroll_y
        /\ tabs[i].scroll_y <= Max(0, Len(tabs[i].lines) - 1)

\* C10: delete_char with the cursor at (0, 0) and delete_forward with the
\* cursor at the end of the last line change nothing: lines, cursor_x,
\* cursor_y, scroll_y and modified are as before.
C10_DeleteAtEdgesIsNoOp ==
    [][/\ (/\ Did("delete_char")
           /\ tabs[1].cursor_y = 0
           /\ tabs[1].cursor_x = 0) => tabs'[1] = tabs[1]
       /\ (/\ Did("delete_forward")
           /\ tabs[1].cursor_y = Len(tabs[1].lines) - 1
           /\ tabs[1].cursor_x = Len(CurLine(tabs[1]))) => tabs'[1] = tabs[1]]_vars

\* delete_forward at the end of the three-line file as loaded: had it
\* removed anything the buffer would be marked modified
C10_Witness ==
    /\ last.op = "delete_forward"
    /\ Len(tabs[1].lines) = 3
    /\ tabs[1].cursor_y = 2
    /\ tabs[1].cursor_x = Len(tabs[1].lines[3])
    /\ ~tabs[1].modified

\* the lines of ls in order, as one text
RECURSIVE Concat(_)
Concat(ls) == IF ls = <<>> THEN <<>> ELSE Head(ls) \o Concat(Tail(ls))

\* v brought into lo..hi
Clamp(v, lo, hi) == IF v < lo THEN lo ELSE IF v > hi THEN hi ELSE v

\* C11: delete_char at column 0 of row y > 0 replaces rows y-1 and y by
\* their concatenation, keeps every other line in place, and leaves the
\* cursor on row y-1 at the old length of that row.
C11_BackspaceJoinsLines ==
    [][(/\ Did("delete_char")
        /\ tabs[1].cursor_x = 0
        /\ tabs[1].cursor_y > 0)
       => LET old == tabs[1].lines
              y == tabs[1].cursor_y
          IN /\ tabs'[1].lines = SubSeq(old, 1, y - 1)
                                 \o <<old[y] \o old[y + 1]>>
                                 \o SubSeq(old, y + 2, Len(old))
             /\ Len(tabs'[1].lines) = Len(old) - 1
             /\ tabs'[1].cursor_y = y - 1
             /\ tabs'[1].cursor_x = Len(old[y])]_vars

\* the lines "a" and "A" joined into "aA" with the cursor between them
C11_Witness ==
    /\ last.op = "delete_char"
    /\ tabs[1].lines = <<<<CH_a, CH_A>>>>
    /\ tabs[1].cursor_y = 0
    /\ tabs[1].cursor_x = 1
    /\ tabs[1].modified

\* C12: insert_newline at (y, x) puts the first x characters of row y and
\* the rest of it on two consecutive rows, one more line in all and the
\* same text, and moves the cursor to (y+1, 0).
C12_NewlineSplitsLine ==
    [][Did("insert_newline")
       => LET old == tabs[1].lines
              y == tabs[1].cursor_y
              x == tabs[1].cursor_x
          IN /\ tabs'[1].lines = SubSeq(old, 1, y)
                                 \o <<SubSeq(old[y + 1], 1, x),
                                      SubSeq(old[y + 1], x + 1, Len(old[y + 1]))>>
                                 \o SubSeq(old, y + 2, Len(old))
             /\ Len(tabs'[1].lines) = Len(old) + 1
             /\ Concat(tabs'[1].lines) = Concat(old)
             /\ tabs'[1].cursor_y = y + 1
             /\ tabs'[1].cursor_x = 0]_vars

\* "aA" split in the middle into "a" and "A", the cursor on the second
C12_Witness ==
    /\ last.op = "insert_newline"
    /\ tabs[1].lines = <<<<CH_a>>, <<CH_A>>>>
    /\ tabs[1].cursor_y = 1
    /\ tabs[1].cursor_x = 0

\* C13: delete_forward at the end of a row that is not the last appends the
\* next row to it and removes the next row; inside a row it removes the
\* character at the cursor; the cursor never moves.
C13_DeleteForwardJoinsOrRemoves ==
    [][Did("delete_forward")
       => LET old == tabs[1].lines
              y == tabs[1].cursor_y
              x == tabs[1].cursor_x
          IN /\ tabs'[1].cursor_x = x
             /\ tabs'[1].cursor_y = y
             /\ (x = Len(old[y + 1]) /\ y < Len(old) - 1)
                    => tabs'[1].lines = SubSeq(old, 1, y)
                                        \o <<old[y + 1] \o old[y + 2]>>
                                        \o SubSeq(old, y + 3, Len(old))
             /\ x < Len(old[y + 1])
                    => tabs'[1].lines =
                           [old EXCEPT ![y + 1] =
                               SubSeq(@, 1, x) \o SubSeq(@, x + 2, Len(@))]]_vars

\* the empty middle line of the loaded file joined with the line after it
C13_Witness ==
    /\ last.op = "delete_forward"
    /\ tabs[1].lines = <<<<CH_a>>, <<CH_A>>>>
    /\ tabs[1].cursor_y = 1
    /\ tabs[1].cursor_x = 0
    /\ tabs[1].modified

\* C14: move_cursor(dx, dy) puts the cursor on row cursor_y + dy brought
\* into the buffer and then on column cursor_x + dx brought into that row,
\* so a vertical move onto a shorter row cuts the column to its length;
\* lines and modified stay as they were.
C14_MoveCursorClamps ==
    [][Did("move_cursor")
       => LET b == tabs[1]
              new_y == Clamp(b.cursor_y + last'.arg[2], 0, Len(b.lines) - 1)
              new_x == Clamp(b.cursor_x + last'.arg[1], 0,
                             Len(b.lines[new_y + 1]))
          IN /\ tabs'[1].cursor_y = new_y
             /\ tabs'[1].cursor_x = new_x
             /\ (last'.arg[1] = 0 /\ Len(b.lines[new_y + 1]) < b.cursor_x)
                    => tabs'[1].cursor_x = Len(b.lines[new_y + 1])
             /\ tabs'[1].lines = b.lines
             /\ tabs'[1].modified = b.modified]_vars

\* a move straight down from "a" onto the empty line below it
C14_Witness ==
    /\ last.op = "move_cursor"
    /\ last.arg = <<0, 1>>
    /\ Len(tabs[1].lines) = 3
    /\ tabs[1].lines[1] # <<>>
    /\ tabs[1].lines[2] = <<>>
    /\ tabs[1].cursor_y = 1
    /\ tabs[1].cursor_x = 0

\* C15: after move_cursor with a viewport of h >= 1 rows the cursor row is
\* in the window, and scroll_y is the old one when the row was already in
\* the old window, the cursor row when it was above, and the cursor row
\* - h + 1 when it was below.
C15_MoveCursorScrollsLeast ==
    [][(Did("move_cursor") /\ ViewRows >= 1)
       => LET old == tabs[1].scroll_y
              y == tabs'[1].cursor_y
              new == tabs'[1].scroll_y
          IN /\ new <= y
             /\ y < new + ViewRows
             /\ (old <= y /\ y < old + ViewRows) => new = old
             /\ y < old => new = y
             /\ y >= old + ViewRows => new = y - ViewRows + 1]_vars

\* a move down off the bottom of a two-row window: the window follows by one
C15_Witness ==
    /\ last.op = "move_cursor"
    /\ last.arg[2] = 1
    /\ ViewRows = 2
    /\ tabs[1].cursor_y = 2
    /\ tabs[1].scroll_y = 1

\* C16: goto_line(n, h) puts the cursor on row n-1 brought into the buffer,
\* at column 0, with scroll_y = max(0, cursor_y - h div 2); lines and
\* modified stay as they were.
C16_GotoLineCentres ==
    [][Did("goto_line")
       => LET b == tabs[1]
              row == Clamp(last'.arg[1] - 1, 0, Len(b.lines) - 1)
          IN /\ tabs'[1].cursor_y = row
             /\ tabs'[1].cursor_x = 0
             /\ tabs'[1].scroll_y = Max(0, row - ViewRows \div 2)
             /\ tabs'[1].lines = b.lines
             /\ tabs'[1].modified = b.modified]_vars

\* goto_line(3) in a two-row window: row 2 with one row shown above it
C16_Witness ==
    /\ last.op = "goto_line"
    /\ last.arg = <<3>>
    /\ ViewRows = 2
    /\ tabs[1].cursor_y = 2
    /\ tabs[1].cursor_x = 0
    /\ tabs[1].scroll_y = 1

----------------------------------------------------------------------------
(* Properties of saving and loading. *)

\* C5: a successful save_file followed by a load of the same path (a new
\* TextBuffer on it, read without error) gives back the lines that were
\* saved, also when the last line is empty.
C5_SaveLoadRoundTrip ==
    [][(/\ last.op = "save_file"
        /\ last.ret = "True"
        /\ Did("construct")
        /\ last'.arg = tabs[1].filename
        /\ last'.ret = "read")
       => tabs'[1].lines = tabs[1].lines]_vars

\* the step was save_file on a buffer that cannot be written: no path given
\* and none bound, or a write that raises
FailingSave ==
    /\ Did("save_file")
    /\ \/ last'.arg[2] # "ok"
       \/ ~Truthy(last'.arg[1]) /\ ~Truthy(tabs[1].filename)

\* C7: a save_file that cannot complete returns False, raises nothing, and
\* leaves modified, lines and the cursor as they were.
C7_FailedSaveKeepsBuffer ==
    [][FailingSave =>
          /\ last'.ret = "False"
          /\ ~last'.raised
          /\ tabs'[1].modified = tabs[1].modified
          /\ tabs'[1].lines = tabs[1].lines
          /\ tabs'[1].cursor_x = tabs[1].cursor_x
          /\ tabs'[1].cursor_y = tabs[1].cursor_y]_vars

\* a write that raised on a modified buffer, which is still modified
C7_Witness ==
    /\ last.op = "save_file"
    /\ last.arg = <<Path_py, "write_fails">>
    /\ last.ret = "False"
    /\ tabs[1].modified
    /\ tabs[1].lines # <<<<>>>>

\* C9: a load never leaves the buffer unusable: an empty file gives one
\* empty line, a failed read gives the one error line, and either way the
\* cursor is in bounds, lines is not empty and modified is false.
C9_LoadLeavesUsableBuffer ==
    last.op = "construct" =>
        /\ (last.ret = "read" /\ fs[last.arg].content = <<>>)
               => tabs[1].lines = <<<<>>>>
        /\ last.ret = "read_error" => tabs[1].lines = <<ErrorLine>>
        /\ Len(tabs[1].lines) >= 1
        /\ CursorInBounds(tabs[1])
        /\ ~tabs[1].modified
        /\ ~last.raised

\* a read of the file that failed
C9_Witness ==
    /\ last.op = "construct"
    /\ last.ret = "read_error"
    /\ tabs[1].lines = <<ErrorLine>>
    /\ ~tabs[1].modified

----------------------------------------------------------------------------
(* Properties of the session. *)

\* C4: tabs is never empty and current_tab is an index of it, from any
\* initial file list and under new-tab, open, close-tab and switch-tab.
C4_TabsNonEmptyCurrentValid ==
    /\ Len(tabs) >= 1
    /\ 0 <= current_tab
    /\ current_tab < Len(tabs)

\* the last of three tabs was closed and the index moved back onto a tab
C4_Witness ==
    /\ last.op = "close_tab"
    /\ Len(tabs) = 2
    /\ current_tab = 1

\* the pairs <<i, j>> with tabs'[j] the same buffer object as tabs[i]
KeptBuffers ==
    IF Did("construct") THEN {}
    ELSE IF Did("close_tab") /\ Len(tabs) > 1
    THEN {<<i, IF i <= current_tab THEN i ELSE i - 1>> :
              i \in DOMAIN tabs \ {current_tab + 1}}
    ELSE {<<i, i>> : i \in DOMAIN tabs}

C8_FailedSaveIsReported ==
    (/\ last.op = "save"
     /\ last.ret = "False"
     /\ Truthy(Buf.filename)) => message # ""

----------------------------------------------------------------------------
(* Properties of the SearchManager. *)

\* the query occurs in the line at start (zero-based), with case folded
\* unless the search is case sensitive
OccursAt(line, q, start, case_sensitive) ==
    /\ start + Len(q) <= Len(line)
    /\ LET part == SubSeq(line, start + 1, start + Len(q))
       IN IF case_sensitive THEN part = q ELSE Lower(part) = Lower(q)

\* every (line, start, start + len(query)) at which the query occurs
Occurrences(lines, q, case_sensitive) ==
    {<<p[1] - 1, p[2], p[2] + Len(q)>> :
         p \in {r \in (DOMAIN lines) \X (0..SumLen(lines)) :
                    OccursAt(lines[r[1]], q, r[2], case_sensitive)}}

\* a is before b in document order
Before(a, b) == a[1] < b[1] \/ (a[1] = b[1] /\ a[2] < b[2])

\* C18: after search(lines, query) with a query that is not empty, matches
\* holds each (line, start, start + len(query)) at which the query occurs in
\* lines[line], case folded unless case_sensitive, overlapping occurrences
\* too, once each and in ascending (line, start) order, whatever it held
\* before.
C18_SearchFindsAllOccurrences ==
    [][(Did("search") /\ Truthy(last'.arg[1]))
       => LET found == search_manager'.matches IN
          /\ {found[i] : i \in DOMAIN found}
                 = Occurrences(tabs[1].lines, last'.arg[1], last'.arg[2])
          /\ \A i \in 1..(Len(found) - 1) : Before(found[i], found[i + 1])]_vars

\* C19: next_match(l, c) returns the first match after (l, c) in document
\* order, the first match of the list when none is after it, and no match
\* only when matches is empty; when it returns a match, current_match is
\* the index of that match.
C19_NextMatchIsNextOrFirst ==
    [][Did("next_match")
       => LET m == search_manager.matches
              pos == last'.arg
              r == next_match(search_manager, pos[1], pos[2])
              after == {i \in DOMAIN m : Before(pos, m[i])}
              i == IF after # {}
                   THEN CHOOSE j \in after :
                            \A k \in after : ~Before(m[k], m[j])
                   ELSE 1
          IN /\ (r.ret = <<>>) <=> (m = <<>>)
             /\ (last'.ret = "None") <=> (m = <<>>)
             /\ search_manager' = r.sm
             /\ search_manager'.matches = m
             /\ m # <<>> => /\ r.ret = <<m[i][1], m[i][2]>>
                            /\ search_manager'.current_match = i - 1]_vars

\* "aa" searched for "a": next_match from the second match wraps to the first
C19_Witness ==
    /\ last.op = "next_match"
    /\ last.arg = <<0, 1>>
    /\ last.ret = "match"
    /\ search_manager.matches = <<<<0, 0, 1>>, <<0, 1, 2>>>>
    /\ search_manager.current_match = 0

----------------------------------------------------------------------------
(* Properties of the prompts. *)

\* the cursor of the active buffer
Cursor(b) == <<b.cursor_y, b.cursor_x>>

\* a prompt is open
InPrompt == search_mode \/ goto_mode

\* the step is Enter in a prompt
DidEnter == Did("search_enter") \/ Did("goto_enter")

\* the step is Escape in a prompt
DidEscape == Did("search_escape") \/ Did("goto_escape")

\* C21: Escape in a prompt empties the typed text and gives Normal, and
\* from the key that opens a prompt up to its Escape nothing else moves:
\* the search manager and every buffer are as before the prompt was opened.
C21_EscapeHasNoSideEffects ==
    [][/\ (Did("search") \/ Did("goto") \/ (InPrompt /\ ~DidEnter))
              => /\ tabs' = tabs
                 /\ search_manager' = search_manager
       /\ DidEscape => /\ ~search_mode'
                       /\ ~goto_mode'
                       /\ query' = <<>>
                       /\ line_str' = <<>>]_vars

\* Escape from the search prompt after an earlier search: its matches are
\* still there
C21_Witness ==
    /\ last.op = "search_escape"
    /\ ~search_mode
    /\ ~goto_mode
    /\ query = <<>>
    /\ search_manager.matches # <<>>
    /\ search_manager.query # <<>>

\* C22: search with an empty query leaves matches empty, whatever was
\* searched before, and Enter on an empty search prompt gives Normal with
\* every buffer, its cursor included, as it was.
C22_EmptyQueryIsNoOp ==
    /\ [](\A case_sensitive \in BOOLEAN :
              search(search_manager, Buf.lines, <<>>, case_sensitive).matches
                  = <<>>)
    /\ [][(Did("search_enter") /\ query = <<>>)
          => /\ ~search_mode'
             /\ ~goto_mode'
             /\ tabs' = tabs]_vars

\* Enter on an empty search prompt, with the cursor at the start of the
\* file and matches of an earlier search that lie further on
C22_Witness ==
    /\ last.op = "search_enter"
    /\ last.arg = <<>>
    /\ ~search_mode
    /\ search_manager.matches # <<>>
    /\ Cursor(Buf) = <<0, 0>>

\* C23: search_mode and goto_mode are never both true, the session starts
\* in Normal, the program is left only from Normal (Ctrl+Q in a prompt
\* changes neither the mode nor running), and Enter and Escape in a prompt
\* give Normal.
C23_ModesAndExit ==
    /\ [](~(search_mode /\ goto_mode))
    /\ [](last.op = "init" => (running /\ ~search_mode /\ ~goto_mode))
    /\ [][/\ (running /\ ~running') => (~search_mode /\ ~goto_mode)
          /\ (Did("search_other") \/ Did("goto_other"))
                 => /\ running'
                    /\ search_mode' = search_mode
                    /\ goto_mode' = goto_mode
          /\ (DidEnter \/ DidEscape) => (~search_mode' /\ ~goto_mode')]_vars

\* Ctrl+Q typed in the search prompt: the prompt is still open
C23_Witness ==
    /\ last.op = "search_other"
    /\ last.arg = <<CTRL_Q>>
    /\ running
    /\ search_mode
    /\ ~goto_mode

\* C24: in a prompt a printable key (a digit in the go-to-line prompt) is
\* appended to the prompt text and any other key leaves it, Backspace takes
\* its last character away, no key but Enter changes the lines, cursor or
\* modified flag of a buffer, and Enter changes no lines and no modified
\* flag.
C24_PromptConsumesKeys ==
    [][/\ Did("search_char") => /\ Printable(last'.arg[1])
                                /\ query' = Append(query, last'.arg[1])
       /\ Did("goto_digit") => /\ IsDigit(last'.arg[1])
                               /\ line_str' = Append(line_str, last'.arg[1])
       /\ Did("goto_other") => line_str' = line_str
       /\ Did("search_other") => query' = query
       /\ Did("search_backspace")
              => query' = SubSeq(query, 1, Len(query) - 1)
       /\ Did("goto_backspace")
              => line_str' = SubSeq(line_str, 1, Len(line_str) - 1)
       /\ (InPrompt /\ ~DidEnter)
              => \A i \in DOMAIN tabs :
                     /\ tabs'[i].lines = tabs[i].lines
                     /\ Cursor(tabs'[i]) = Cursor(tabs[i])
                     /\ tabs'[i].modified = tabs[i].modified
       /\ DidEnter
              => /\ DOMAIN tabs' = DOMAIN tabs
                 /\ \A i \in DOMAIN tabs :
                        /\ tabs'[i].lines = tabs[i].lines
                        /\ tabs'[i].modified = tabs[i].modified]_vars

\* a letter typed in the go-to-line prompt after a digit: the digit stays,
\* the letter went nowhere
C24_Witness ==
    /\ last.op = "goto_other"
    /\ last.arg = <<CH_a>>
    /\ goto_mode
    /\ line_str # <<>>
    /\ ~Buf.modified

\* C17: Enter in the go-to-line prompt with nothing typed, with 0, or with a
\* number above the buffer's line count leaves the cursor of the active
\* buffer where it was.
C17_GotoOutOfRangeKeepsCursor ==
    [][(/\ Did("goto_enter")
        /\ \/ line_str = <<>>
           \/ ParseInt(line_str) = 0
           \/ ParseInt(line_str) > Len(Buf.lines))
       => Cursor(tabs'[current_tab + 1]) = Cursor(Buf)]_vars

\* C20: Enter in the search prompt with a query that occurs in the active
\* buffer puts the cursor on the first occurrence at or after the cursor,
\* an occurrence starting at the cursor included, or on the first of the
\* buffer when none is, and the mode is Normal again.
C20_SearchJumpsAtOrAfterCursor ==
    [][(/\ Did("search_enter")
        /\ Truthy(query)
        /\ Occurrences(Buf.lines, query, FALSE) # {})
       => LET occ == Occurrences(Buf.lines, query, FALSE)
              here == Cursor(Buf)
              ahead == {m \in occ : ~Before(m, here)}
              from == IF ahead # {} THEN ahead ELSE occ
              target == CHOOSE m \in from : \A n \in from : ~Before(n, m)
          IN /\ Cursor(tabs'[current_tab + 1]) = <<target[1], target[2]>>
             /\ ~search_mode'
             /\ ~goto_mode']_vars

----------------------------------------------------------------------------
(* The highlighter runs: one tab on a new Python file, and a line typed     *)
(* from characters the rules look for.  Every pass of the loop redraws the  *)
(* window, and draw_content calls highlight_line on each visible line.      *)

\* 32 <= key <= 126, with the characters i f # " *
KeySyntaxChar ==
    /\ RoomForChar(Buf)
    /\ \E key \in {CH_i, CH_f, HASH, DQUOTE, STAR} :
           /\ Printable(key)
           /\ BufferKey("char", <<key>>, insert_char(Buf, key))

HighlightInit ==
    /\ SessionInit
    /\ height = 5
    /\ lim = [lines |-> 1, chars |-> HlChars, tabs |-> 1]
    /\ fs = [p \in Paths |-> NoFile]
    /\ tabs = InitialTabs(<<Path_py>>, fs, <<TRUE>>)

HighlightNext ==
    \/ KeySyntaxChar
    \/ KeyBackspace

SpecHighlight == HighlightInit /\ [][HighlightNext]_vars

----------------------------------------------------------------------------
(* Properties of the tab list and of the themes. *)

\* C25: close_tab with one tab changes nothing; with more it removes the
\* active buffer and no other, keeps the others in order, and leaves
\* current_tab where it was when that is still an index, else on the new
\* last tab.
C25_CloseTabRemovesActive ==
    [][Did("close_tab")
       => IF Len(tabs) = 1
          THEN tabs' = tabs /\ current_tab' = current_tab
          ELSE /\ tabs' = SubSeq(tabs, 1, current_tab)
                          \o SubSeq(tabs, current_tab + 2, Len(tabs))
               /\ Len(tabs') = Len(tabs) - 1
               /\ current_tab' = IF current_tab < Len(tabs')
                                 THEN current_tab ELSE Len(tabs') - 1]_vars

\* the first of three tabs closed: two different buffers are left and the
\* index stayed on 0
C25_Witness ==
    /\ last.op = "close_tab"
    /\ Len(tabs) = 2
    /\ current_tab = 0
    /\ tabs[1] # tabs[2]

\* n forward switches from index i
RECURSIVE Forward(_, _)
Forward(n, i) == IF n = 0 THEN i ELSE Forward(n - 1, switch_tab(tabs, i, 1))

\* C26: with n tabs a forward switch selects (i+1) mod n and a backward
\* switch (i-1) mod n, neither changes the tab list, and so forward then
\* backward, and n forward switches, come back to the tab they left; with
\* one tab a switch does nothing.
C26_SwitchTabIsCyclic ==
    /\ [][/\ Did("next_tab")
                 => /\ tabs' = tabs
                    /\ current_tab' = IF current_tab + 1 = Len(tabs)
                                      THEN 0 ELSE current_tab + 1
          /\ Did("prev_tab")
                 => /\ tabs' = tabs
                    /\ current_tab' = IF current_tab = 0
                                      THEN Len(tabs) - 1 ELSE current_tab - 1]_vars
    /\ [](/\ switch_tab(tabs, switch_tab(tabs, current_tab, 1), -1)
                 = current_tab
          /\ Forward(Len(tabs), current_tab) = current_tab)

\* a backward switch from the first of three tabs, which wraps to the last
C26_Witness ==
    /\ last.op = "prev_tab"
    /\ Len(tabs) = 3
    /\ current_tab = 2

\* C27: the new-tab command appends one empty, untitled, unmodified buffer
\* and selects it; the open command with the path of a file appends one
\* buffer for that path and selects it; with an empty path or one that is
\* no file it leaves tabs and current_tab as they were.
C27_NewTabAndOpenAppend ==
    [][/\ Did("new_tab")
              => /\ tabs' = Append(tabs,
                                   [filename |-> None, lines |-> <<<<>>>>,
                                    cursor_x |-> 0, cursor_y |-> 0,
                                    scroll_y |-> 0, modified |-> FALSE,
                                    file_type |-> "text"])
                 /\ current_tab' = Len(tabs)
       /\ Did("open")
              => LET name == Strip(last'.arg[1]) IN
                 IF name # <<>> /\ name \in DOMAIN fs /\ fs[name].exists
                 THEN /\ Len(tabs') = Len(tabs) + 1
                      /\ SubSeq(tabs', 1, Len(tabs)) = tabs
                      /\ tabs'[Len(tabs')].filename = name
                      /\ current_tab' = Len(tabs)
                 ELSE tabs' = tabs /\ current_tab' = current_tab]_vars

\* "a.py " typed at the open prompt: a second tab on a.py, selected
C27_Witness ==
    /\ last.op = "open"
    /\ last.arg = <<Path_py \o <<SPACE>>>>
    /\ Len(tabs) = 2
    /\ current_tab = 1
    /\ tabs[2].filename = Path_py
    /\ tabs[1].filename = None

\* C28: the theme is always default, dark or light, each toggle goes to the
\* next of them in that order, light back to default, and three toggles
\* give the theme they started from.
C28_ThemeCycles ==
    /\ [](/\ current_theme \in {"default", "dark", "light"}
          /\ next_theme(next_theme(next_theme(current_theme)))
                 = current_theme)
    /\ [][Did("theme")
          => current_theme' = CASE current_theme = "default" -> "dark"
                                [] current_theme = "dark" -> "light"
                                [] current_theme = "light" -> "default"]_vars

\* the toggle that leaves light
C28_Witness ==
    /\ last.op = "theme"
    /\ current_theme = "default"

\* C29: for an element that the current theme does not have, get_color
\* gives the colours of the theme's 'text' element.  (get_color is total
\* once init_colors has run, which run does before the first key.)
C29_UnknownElementGetsTextColor ==
    \A element \in UnknownElements :
        pair_content(get_color(current_theme, element))
            = pair_content(get_color(current_theme, "text"))

----------------------------------------------------------------------------
(* Properties of the highlighter. *)

\* the file types of get_file_type, and one that it never gives
FileTypes ==
    {"python", "javascript", "c", "html", "css", "markdown", "text", "other"}

\* the texts of the slices, one after the other
RECURSIVE SliceTexts(_)
SliceTexts(slices) ==
    IF slices = <<>> THEN <<>>
    ELSE Head(slices)[1] \o SliceTexts(Tail(slices))

\* C30: for every line of every buffer and every file type, the texts of the
\* slices of highlight_line, in order, make up the line exactly, and for a
\* file type without rules the result is the one slice <<line, 0>>.
C30_SlicesCoverLine ==
    \A i \in DOMAIN tabs : \A j \in DOMAIN tabs[i].lines :
        \A file_type \in FileTypes :
            \A result \in {highlight_line(tabs[i].lines[j], file_type)} :
                /\ SliceTexts(result) = tabs[i].lines[j]
                /\ file_type \notin DOMAIN patterns
                       => result = <<<<tabs[i].lines[j], 0>>>>

\* "#"i typed into a.py: the string is kept, the comment starting inside it
\* is dropped, and the i after it is an untagged slice
C30_Witness ==
    /\ last.op = "char"
    /\ syntax_enabled
    /\ Buf.file_type = "python"
    /\ Buf.lines = <<<<DQUOTE, HASH, DQUOTE, CH_i>>>>
    /\ Len(CollectMatches(patterns.python, Buf.lines[1])) = 2
    /\ highlight_line(Buf.lines[1], Buf.file_type)
           = <<<<<<DQUOTE, HASH, DQUOTE>>, 3>>, <<<<CH_i>>, 0>>>>

\* the tagged slices of a result as spans <<start, end, color>>, the first
\* slice starting at position pos
RECURSIVE TaggedSpans(_, _)
TaggedSpans(slices, pos) ==
    IF slices = <<>> THEN <<>>
    ELSE LET sl == Head(slices)
             rest == TaggedSpans(Tail(slices), pos + Len(sl[1]))
         IN IF sl[2] = 0 THEN rest
            ELSE <<<<pos, pos + Len(sl[1]), sl[2]>>>> \o rest

\* the spans of ms that start at s, in the order of ms
RECURSIVE StartingAt(_, _)
StartingAt(ms, s) ==
    IF ms = <<>> THEN <<>>
    ELSE (IF Head(ms)[1] = s THEN <<Head(ms)>> ELSE <<>>)
         \o StartingAt(Tail(ms), s)

\* ms is the scan order of the discovered matches found: the same matches
\* by ascending start, equal starts in the order of discovery
IsScanOrder(found, ms) ==
    /\ Len(ms) = Len(found)
    /\ \A i \in 1..(Len(ms) - 1) : ms[i][1] <= ms[i + 1][1]
    /\ \A n \in 1..Len(found) :
           StartingAt(ms, found[n][1]) = StartingAt(found, found[n][1])

\* the candidates of a line in the order highlight_line scans them
ScanOrder(line, file_type) ==
    SortByStart(CollectMatches(patterns[file_type], line))

\* the candidates (by index in scan order) that are accepted: a candidate is
\* accepted iff its start is in no candidate accepted before it
Accepted(ms) ==
    CHOOSE K \in SUBSET (1..Len(ms)) :
        \A i \in 1..Len(ms) :
            i \in K <=> ~\E j \in K : /\ j < i
                                      /\ ms[j][1] <= ms[i][1]
                                      /\ ms[i][1] < ms[j][2]

Overlap(a, b) == a[1] < b[2] /\ b[1] < a[2]

\* the accepted candidates are the tagged slices of the result, in order
ResultIsAccepted(line, file_type, ms, K) ==
    \A tagged \in {TaggedSpans(highlight_line(line, file_type), 0)} :
        /\ Len(tagged) = Cardinality(K)
        /\ \A n \in 1..Len(tagged) :
               \E i \in K : /\ Cardinality({j \in K : j <= i}) = n
                            /\ tagged[n] = ms[i]

RuledTypes == DOMAIN patterns

\* C31, as far as it holds: for every line and every file type with rules,
\* the candidates are scanned by ascending start, equal starts in the order
\* of discovery; a candidate is accepted iff its start is inside no
\* candidate accepted before it; the accepted ones are the tagged slices of
\* the result; and accepted candidates are pairwise disjoint, so a candidate
\* overlapping an accepted earlier one is never accepted.
C31_FirstAcceptedWins ==
    [](\A i \in DOMAIN tabs : \A j \in DOMAIN tabs[i].lines :
        \A file_type \in RuledTypes :
            \A ms \in {ScanOrder(tabs[i].lines[j], file_type)} :
                \A K \in {Accepted(ms)} :
                    /\ IsScanOrder(CollectMatches(patterns[file_type],
                                                  tabs[i].lines[j]), ms)
                    /\ ResultIsAccepted(tabs[i].lines[j], file_type, ms, K)
                    /\ \A a, b \in K : a # b => ~Overlap(ms[a], ms[b]))

\* C31 as stated: in addition, of two overlapping candidates the earlier
\* one in scan order wins, that is, the later one is not accepted while the
\* earlier one is discarded.
C31_EarlierStartWins ==
    /\ C31_FirstAcceptedWins
    /\ [](\A i \in DOMAIN tabs : \A j \in DOMAIN tabs[i].lines :
           \A file_type \in RuledTypes :
               \A ms \in {ScanOrder(tabs[i].lines[j], file_type)} :
                   \A K \in {Accepted(ms)} :
                       \A a, b \in 1..Len(ms) :
                           (a < b /\ Overlap(ms[a], ms[b]))
                               => ~(b \in K /\ a \notin K))

\* **** typed into a.py and read as markdown: the bold span and the first
\* italic span both start at 0, the bold one was discovered first and is
\* the one accepted
C31_Witness ==
    /\ last.op = "char"
    /\ Buf.lines = <<<<STAR, STAR, STAR, STAR>>>>
    /\ LET ms == ScanOrder(Buf.lines[1], "markdown")
       IN /\ ms = <<<<0, 4, 3>>, <<0, 2, 4>>, <<2, 4, 4>>>>
          /\ Accepted(ms) = {1}
    /\ highlight_line(Buf.lines[1], "markdown")
           = <<<<<<STAR, STAR, STAR, STAR>>, 3>>>>

----------------------------------------------------------------------------
(* PixelatedGifPlayer, interactive mode: the main thread runs               *)
(* interactive_mode and playback_loop, the input thread runs input_handler, *)
(* and the user types keys.  A step of a thread is one read or write of the *)
(* shared fields, or a stretch of code that touches none.  A GIF is         *)
(* modelled by its number of frames, 0 for a file load_gif fails on, and    *)
(* select and read never raise in these runs.  The editor is not part of    *)
(* these runs and its variables stay as they start.                         *)

\* load_current_gif: the player after the call, and what it returned
load_current_gif(p) ==
    IF /\ p.current_playlist # <<>>
       /\ 0 <= p.current_index
       /\ p.current_index < Len(p.current_playlist)
    THEN LET frames == p.current_playlist[p.current_index + 1]
         IN IF frames > 0
            THEN [p |-> [p EXCEPT !.frame_data = frames,
                                  !.total_frames = frames,
                                  !.current_frame = 0],
                  ret |-> TRUE]
            ELSE [p |-> [p EXCEPT !.frame_data = 0], ret |-> FALSE]
    ELSE [p |-> p, ret |-> FALSE]

next_gif(p) ==
    IF p.current_playlist # <<>>
    THEN load_current_gif(
             [p EXCEPT !.current_index =
                           (p.current_index + 1) % Len(p.current_playlist)]).p
    ELSE p

previous_gif(p) ==
    IF p.current_playlist # <<>>
    THEN load_current_gif(
             [p EXCEPT !.current_index =
                           (p.current_index - 1) % Len(p.current_playlist)]).p
    ELSE p

\* process_input: what one key taken from the queue does
process_input(p, key) ==
    CASE key = " " -> IF p.state = "playing" THEN [p EXCEPT !.state = "paused"]
                      ELSE IF p.state = "paused"
                           THEN [p EXCEPT !.state = "playing"]
                           ELSE p
      [] key = "n" -> next_gif(p)
      [] key = "p" -> previous_gif(p)
      [] key = "r" -> [p EXCEPT !.current_frame = 0]
      [] key = "l" -> [p EXCEPT !.loop_current = ~p.loop_current]
      [] key = "q" -> [p EXCEPT !.state = "stopped"]
      [] OTHER -> p

\* a step of the player by one of "main", "input_thread", "user"
GifStep(who, p) ==
    /\ player' = p
    /\ last' = NoLast(who)
    /\ UNCHANGED <<tabs, current_tab, promptVars, search_manager, displayVars,
                   fs, message, running, height, lim>>

\* the user types a key; it waits in stdin until the input thread reads it
UserType ==
    /\ player.typed < MaxTyped
    /\ \E key \in {" ", "n", "p", "r", "l", "q", "Q", "x"} :
           GifStep("user", [player EXCEPT !.stdin = Append(@, key),
                                          !.typed = @ + 1])

\* input_handler that acts on 'q' itself
input_handler_quits ==
    \/ /\ player.input_thread = "check"
       /\ GifStep("input_thread",
                  [player EXCEPT !.input_thread =
                       IF player.state # "stopped" THEN "poll" ELSE "exited"])
    \/ /\ player.input_thread = "poll"
       /\ GifStep("input_thread",
                  IF player.stdin # <<>>
                  THEN [player EXCEPT
                            !.stdin = Tail(@),
                            !.state = IF Head(player.stdin) \in {"q", "Q"}
                                      THEN "stopped" ELSE @,
                            !.input_thread = "check"]
                  ELSE [player EXCEPT !.input_thread = "check"])

\* input_handler: the test of the while loop, then select, read(1).lower()
\* and put
input_handler ==
    \/ /\ player.input_thread = "check"
       /\ GifStep("input_thread",
                  [player EXCEPT !.input_thread =
                       IF player.state # "stopped" THEN "poll" ELSE "exited"])
    \/ /\ player.input_thread = "poll"
       /\ GifStep("input_thread",
                  IF player.stdin # <<>>
                  THEN LET key == IF Head(player.stdin) = "Q" THEN "q"
                                  ELSE Head(player.stdin)
                       IN [player EXCEPT !.stdin = Tail(@),
                                         !.input_queue = Append(@, key),
                                         !.enqueued = Append(@, key),
                                         !.input_thread = "check"]
                  ELSE [player EXCEPT !.input_thread = "check"])

\* interactive_mode up to the call of playback_loop: the first GIF is
\* loaded, the input thread is started, then state becomes PLAYING
interactive_mode ==
    \/ /\ player.main = "idle"
       /\ GifStep("main",
                  LET r == load_current_gif(player)
                  IN [r.p EXCEPT !.main = IF r.ret THEN "start_thread"
                                          ELSE "done"])
    \/ /\ player.main = "start_thread"
       /\ GifStep("main", [player EXCEPT !.input_thread = "check",
                                         !.main = "set_playing"])
    \/ /\ player.main = "set_playing"
       /\ GifStep("main", [player EXCEPT !.state = "playing",
                                         !.main = "loop"])

\* the body of playback_loop after process_input: show a frame and advance
AdvanceFrame(p) ==
    IF p.state = "playing" /\ p.frame_data > 0
    THEN LET q == [p EXCEPT !.current_frame = @ + 1]
         IN IF q.current_frame >= q.total_frames
            THEN IF q.loop_current THEN [q EXCEPT !.current_frame = 0]
                 ELSE IF Len(q.current_playlist) > 1 THEN next_gif(q)
                 ELSE [q EXCEPT !.state = "paused"]
            ELSE q
    ELSE p

\* playback_loop: the test of the while loop, process_input key by key, and
\* the frame
playback_loop ==
    \/ /\ player.main = "loop"
       /\ GifStep("main",
                  [player EXCEPT !.main =
                       IF player.state # "stopped" THEN "input" ELSE "done"])
    \/ /\ player.main = "input"
       /\ player.input_queue # <<>>
       /\ LET key == Head(player.input_queue)
              p == process_input([player EXCEPT
                                      !.input_queue = Tail(@),
                                      !.consumed = Append(@, key)], key)
          IN GifStep("main", [p EXCEPT !.main = IF key = "q" THEN "done"
                                                ELSE "input"])
    \/ /\ player.main = "input"
       /\ player.input_queue = <<>>
       /\ GifStep("main", [player EXCEPT !.main = "frame"])
    \/ /\ player.main = "frame"
       /\ GifStep("main", [AdvanceFrame(player) EXCEPT !.main = "loop"])

\* main: the playlist of the command line and --no-loop, then
\* interactive_mode
GifInit ==
    /\ \E playlist \in {<<2>>, <<1, 2>>, <<2, 0>>}, no_loop \in BOOLEAN :
           player = [PixelatedGifPlayer EXCEPT
                         !.current_playlist = playlist,
                         !.loop_current = ~no_loop]
    /\ tabs = <<NewBuffer(None, [p \in Paths |-> NoFile], TRUE)>>
    /\ current_tab = 0
    /\ search_mode = FALSE
    /\ goto_mode = FALSE
    /\ query = <<>>
    /\ line_str = <<>>
    /\ search_manager = [query |-> <<>>, matches |-> <<>>,
                         current_match |-> -1, case_sensitive |-> FALSE]
    /\ current_theme = "default"
    /\ syntax_enabled = TRUE
    /\ fs = [p \in Paths |-> NoFile]
    /\ message = ""
    /\ running = TRUE
    /\ height = 5
    /\ last = NoLast("init")
    /\ lim = [lines |-> 1, chars |-> 1, tabs |-> 1]

GifNext ==
    \/ UserType
    \/ interactive_mode
    \/ playback_loop
    \/ input_handler

\* both threads are scheduled again and again; the user may stop typing
SpecGif ==
    /\ GifInit
    /\ [][GifNext]_vars
    /\ WF_vars(interactive_mode \/ playback_loop)
    /\ WF_vars(input_handler)

----------------------------------------------------------------------------
(* Properties of the player. *)

\* the fields both threads can see, the queue apart
Shared(p) ==
    <<p.state, p.current_playlist, p.current_index, p.current_frame,
      p.total_frames, p.frame_data, p.loop_current>>

\* C32: a step of the input thread changes none of state, current_frame,
\* current_index, loop_current and the other shared fields; all it does to
\* the queue is to put one key at its end; every change of those fields and
\* every removal from the queue is a step of the main thread; and the keys
\* taken from the queue are the keys put into it, in the order they were put.
C32_OnlyMainMutates ==
    /\ [][/\ Did("input_thread")
                 => /\ Shared(player') = Shared(player)
                    /\ player'.consumed = player.consumed
                    /\ \/ player'.input_queue = player.input_queue
                       \/ \E key \in {" ", "n", "p", "r", "l", "q", "x"} :
                              player'.input_queue
                                  = Append(player.input_queue, key)
          /\ Did("user") => /\ Shared(player') = Shared(player)
                            /\ player'.input_queue = player.input_queue
          /\ (Shared(player') # Shared(player)
                  \/ player'.consumed # player.consumed)
                 => Did("main")]_vars
    /\ [](player.enqueued = player.consumed \o player.input_queue)

\* 'n' then space were typed, put into the queue and taken from it in that
\* order: the second GIF is shown and playback is paused
C32_Witness ==
    /\ last.op = "main"
    /\ player.consumed = <<"n", " ">>
    /\ player.current_playlist = <<1, 2>>
    /\ player.current_index = 1
    /\ player.state = "paused"

\* C40: a 'q' that is waiting to be read while the playback loop runs leads
\* to state STOPPED.
C40_QuitStopsPlayback ==
    (/\ player.main \in {"loop", "input", "frame"}
     /\ \E i \in DOMAIN player.stdin : player.stdin[i] \in {"q", "Q"})
        ~> (player.state = "stopped")

----------------------------------------------------------------------------
(* Properties of the session: file type, find-next, scrolling, cursor,     *)
(* tabs and inverse edits.                                                  *)

\* C33: every buffer's file_type is the type get_file_type derives from its
\* filename, 'text' when it has none; so it is after the save command named
\* an untitled buffer.
C33_FileTypeFollowsName ==
    \A i \in DOMAIN tabs :
        tabs[i].file_type = get_file_type(tabs[i].filename)

\* C34: when the last query occurs in the active buffer's lines, find-next
\* leaves the cursor at the start of an occurrence of it in those lines,
\* whatever was edited since the search.
C34_FindNextLandsOnOccurrence ==
    [][(/\ Did("find_next")
        /\ Truthy(search_manager.query)
        /\ Occurrences(Buf.lines, search_manager.query,
                       search_manager.case_sensitive) # {})
       => \E o \in Occurrences(Buf.lines, search_manager.query,
                               search_manager.case_sensitive) :
              /\ tabs'[current_tab + 1].lines = Buf.lines
              /\ Cursor(tabs'[current_tab + 1]) = <<o[1], o[2]>>]_vars

\* C35: after Enter, Backspace, Home, End, the Enter of the search and goto
\* prompts and find-next, the active buffer's cursor line is in the viewport
\* of height - 3 rows: scroll_y <= cursor_y < scroll_y + (height - 3).
C35_ScrollFollowsCursor ==
    [][(last'.op \in {"enter", "backspace", "home", "end", "search_enter",
                      "find_next", "goto_enter"})
       => LET b == tabs'[current_tab' + 1]
          IN /\ b.scroll_y <= b.cursor_y
             /\ b.cursor_y < b.scroll_y + ViewRows]_vars

\* C36: in every state of the session, so after every key, every buffer of
\* the tab list has 0 <= cursor_y < len(lines) and
\* 0 <= cursor_x <= len(lines[cursor_y]); so it is after Home, End, goto, the
\* Enter of a search, and find-next with matches found before an edit or in
\* another tab.
C36_CursorInBoundsAfterEveryKey ==
    \A i \in DOMAIN tabs :
        LET b == tabs[i]
        IN /\ b.cursor_y \in 0..(Len(b.lines) - 1)
           /\ b.cursor_x \in 0..Len(b.lines[b.cursor_y + 1])

\* find-next in the second, one-line tab took a match on line 1 that was
\* found in the first tab, and the cursor is on line 0
C36_Witness ==
    /\ last.op = "find_next"
    /\ current_tab = 1
    /\ Len(Buf.lines) = 1
    /\ search_manager.current_match = 0
    /\ search_manager.matches = <<<<1, 0, 1>>>>
    /\ Cursor(Buf) = <<0, 0>>
    /\ Len(tabs[1].lines) = 2

\* what C37 says a command leaves alone in a buffer that is not active
Owned(b) ==
    <<b.lines, b.cursor_x, b.cursor_y, b.scroll_y, b.modified, b.filename>>

\* C37: a key that edits, moves, searches, goes to a line or saves changes
\* no tab but the active one: lines, cursor_x, cursor_y, scroll_y, modified
\* and filename of every other tab are as before; and a tab switch, the theme
\* key and the syntax key change no buffer and not the number of tabs.
C37_OnlyActiveBufferChanges ==
    [][/\ Len(tabs') = Len(tabs)
       /\ \A i \in DOMAIN tabs :
              i # current_tab + 1 => Owned(tabs'[i]) = Owned(tabs[i])
       /\ (last'.op \in {"next_tab", "prev_tab", "theme", "syntax"})
              => tabs' = tabs]_vars

\* the untitled second tab was saved as a.py while the first tab, edited
\* before, still has its text and its modified flag
C37_Witness ==
    /\ last.op = "save"
    /\ last.ret = "True"
    /\ current_tab = 1
    /\ tabs[2].filename = Path_py
    /\ ~tabs[2].modified
    /\ tabs[1].modified
    /\ tabs[1].lines = <<<<CH_A>>>>
    /\ tabs[1].cursor_x = 1

\* lines, cursor_x and cursor_y of a buffer
Text(b) == <<b.lines, b.cursor_x, b.cursor_y>>

\* C38: in every state of a buffer, insert_char(c) and then delete_char, and
\* insert_newline and then delete_char, give back the lines, cursor_x and
\* cursor_y the buffer had before the insertion.
C38_DeleteCharUndoesInsertion ==
    /\ \A c \in Chars :
           Text(delete_char(insert_char(tabs[1], c))) = Text(tabs[1])
    /\ Text(delete_char(insert_newline(tabs[1]))) = Text(tabs[1])

\* a new buffer is as it was made, an empty line with the cursor at (0, 0),
\* after an insertion and the delete_char that followed it
C38_Witness ==
    /\ last.op = "delete_char"
    /\ tabs[1].modified
    /\ tabs[1].filename = None
    /\ Text(tabs[1]) = <<<<<<>>>>, 0, 0>>

\* the matches are those of the last query in the lines as they are now
FreshMatches ==
    /\ Truthy(search_manager.query)
    /\ search_manager.matches # <<>>
    /\ search_manager.matches
           = search(search_manager, Buf.lines, search_manager.query,
                    search_manager.case_sensitive).matches

\* the cursor of b is at the start of match i
AtMatch(b, i) ==
    Cursor(b) = <<search_manager.matches[i][1], search_manager.matches[i][2]>>

\* C39: with k matches that are those of the lines as they are, find-next
\* puts the cursor at the start of a match, and from the start of match i it
\* goes to the start of match i + 1, from the last match to the first; so k
\* find-next keys visit every match once in document order and the next one
\* is where the first was.
C39_FindNextIsCyclic ==
    [][(Did("find_next") /\ FreshMatches)
       => LET k == Len(search_manager.matches)
              after == tabs'[current_tab + 1]
          IN /\ \E i \in 1..k : AtMatch(after, i)
             /\ \A i \in 1..k :
                    AtMatch(Buf, i) => AtMatch(after, (i % k) + 1)]_vars

====
